---- MODULE Spec2Model ----
(***************************************************************************)
(* Model of the metadata-driven persistence engine of itsm-platform.       *)
(*                                                                         *)
(* The repository ships two CRUD engines over the same per-tenant store    *)
(* layout (schema tenant_<id>, one table per node):                        *)
(*   "sdk" : sdk/dal/dal.go (DAL) with the query Builder and the hook      *)
(*           Executor, embedded in every generated service;                *)
(*   "svc" : services/dal-service (DALService handlers + QueryExecutor).   *)
(* cfg.engine, fixed in Init, says which program the behaviour is of.      *)
(*                                                                         *)
(* Every request runs on its own goroutine (a slot of Procs).  An          *)
(* operation is split exactly at its store statements, so statements of    *)
(* concurrent operations interleave as they do against the connection      *)
(* pool; its post hooks and publish form one further step, taken before    *)
(* any other statement since it touches no shared state.                   *)
(***************************************************************************)
EXTENDS Integers, Sequences, FiniteSets, TLC

\* ------------------------------------------------------------------ bounds
NumProcs == 2        \* concurrent request goroutines
MaxIds   == 2        \* rows ever created (uuid.New() never repeats)
MaxOps   == 3        \* requests served in one behaviour

Procs   == 1 .. NumProcs
Tenants == {"t1", "t2"}

\* ------------------------------------------------------------ metadata
ServiceName == "ticket"
NodeName    == "Ticket"
NodeTable   == "tickets"

Null == "NULL"       \* SQL NULL / Go nil of a text or timestamp column
Now  == "ts"         \* a non-null timestamp (time.Now(), NOW())

NoEntity == [k \in {} |-> Null]     \* nil Entity / no row

IsNil(e) == DOMAIN e = {}

\* Columns of the node's table.  The DAL scans rows positionally onto
\* node.Properties, so for the sdk engine the DSL lists every column.
BaseColumns == {"id", "tenant_id", "title", "status", "created_at", "updated_at"}

Columns(c) ==
    BaseColumns \cup (IF c.SoftDelete THEN {"deleted_at"} ELSE {})
                \cup (IF c.OptimisticLock THEN {"version"} ELSE {})

\* validProperties handed to query.NewBuilder
Properties(c) == Columns(c)

\* column default when an INSERT does not name the column
ColumnDefault(col) == IF col = "version" THEN 1 ELSE Null

\* a schema name that ignores the tenant
SchemaNameShared(tenantID) == <<"tenant_", "default">>

\* fmt.Sprintf("tenant_%s", tenantID)
SchemaName(tenantID) == <<"tenant_", tenantID>>

Schemas == { SchemaName(t) : t \in Tenants }

\* ------------------------------------------------------------ hook DSL
RequiredMessage == "title is required"
RuleMessage     == "cannot modify a closed ticket"

Hooks == [
    PreCreate  |-> [Enabled |-> TRUE,
                    Validations |-> << [Field |-> "title", Rule |-> "required",
                                        Message |-> RequiredMessage] >>],
    PostCreate |-> [Enabled |-> TRUE,
                    Actions |-> << "auto_escalate", "notify_customer" >>],
    PreUpdate  |-> [Enabled |-> TRUE,
                    Validations |-> << >>,
                    Rules |-> << [Condition |-> << [Side |-> "old", Field |-> "status",
                                                    Op |-> "==", Value |-> "closed"] >>,
                                  Action |-> "reject",
                                  Message |-> RuleMessage] >>],
    PostUpdate |-> [Enabled |-> TRUE,
                    Triggers |-> << [OnFieldChange |-> "status",
                                     Action |-> "audit_status_change"],
                                    [OnFieldChange |-> "status",
                                     Action |-> "notify_status_change"] >>,
                    Actions |-> << "calculate_sla" >>],
    PreDelete  |-> [Enabled |-> TRUE,
                    Checks |-> << "has_no_dependencies", "check_no_open_children" >>],
    PostDelete |-> [Enabled |-> TRUE, Actions |-> << "cleanup_attachments" >>] ]

\* names registered with RegisterAction / RegisterTrigger / RegisterCheck;
\* auto_escalate, audit_status_change and has_no_dependencies are declared by
\* the node and have no callback
actionHandlers  == {"notify_customer", "calculate_sla", "cleanup_attachments"}
triggerHandlers == {"notify_status_change"}
checkHandlers   == {"check_no_open_children"}

\* ------------------------------------------------------------ requests
\* request bodies: a caller may post any key, system fields included
CreatePayloads == {
    [title |-> "x", status |-> "open", tenant_id |-> "t2", id |-> 9],
    [status |-> "open"],
    [title |-> "x", status |-> "open", deleted_at |-> Now] }

UpdatePayloads == {
    [status |-> "closed"],
    [title |-> "y", tenant_id |-> "t2"],
    [deleted_at |-> Null] }

\* Condition: Value is a scalar, or a JSON array ([]interface{}) when Arr
\* holds, and then Values lists its elements
Leaf(f, op, v) ==
    [Field |-> f, Operator |-> op, Value |-> v, Arr |-> FALSE, Values |-> << >>,
     Or |-> << >>, And |-> << >>]
ArrLeaf(f, op, vs) ==
    [Field |-> f, Operator |-> op, Value |-> Null, Arr |-> TRUE, Values |-> vs,
     Or |-> << >>, And |-> << >>]
OrGroup(cs) ==
    [Field |-> "", Operator |-> "", Value |-> Null, Arr |-> FALSE, Values |-> << >>,
     Or |-> cs, And |-> << >>]
AndGroup(cs) ==
    [Field |-> "", Operator |-> "", Value |-> Null, Arr |-> FALSE, Values |-> << >>,
     Or |-> << >>, And |-> cs]

Queries == {
    << >>,
    << Leaf("status", "eq", "open") >>,
    << Leaf("tenant_id", "eq", "t1") >>,
    << OrGroup(<< Leaf("tenant_id", "eq", "t1"), Leaf("tenant_id", "eq", "t2") >>) >>,
    << Leaf("bogus", "eq", "b") >> }

\* ------------------------------------------------------------ state
VARIABLES
    cfg,        \* engine and the node's DALConfig, fixed at start-up
    store,      \* schema name -> set of rows of <schema>.tickets
    nextId,     \* next identifier uuid.New() hands out
    opsLeft,    \* requests still to be served
    proc,       \* per goroutine: the request it serves and where it stands
    owner,      \* history: id -> tenant whose create inserted the row
    gone,       \* history: ids whose row a delete statement has hit
    job,        \* the query handed to the compiler and what it returned
    mig,        \* the schema migration in progress
    hk,         \* the hook stage under evaluation and what it did
    rel,        \* the relation fetch of a query result
    prov        \* the tenant being provisioned

vars == <<cfg, store, nextId, opsLeft, proc, owner, gone, job, mig, hk, rel, prov>>

\* no query is being compiled, no migration is running
NoJob == [pc |-> "none"]
NoMig == [pc |-> "none"]

\* no hook stage, relation fetch or tenant provisioning is under way
NoHook == [pc |-> "none"]
NoRel  == [pc |-> "none"]
NoProv == [pc |-> "none"]

IdleProc == [pc |-> "idle", op |-> "none", tenant |-> "t1", id |-> 0,
             data |-> NoEntity, old |-> NoEntity, out |-> NoEntity,
             rows |-> {}, total |-> 0, err |-> << >>, pubs |-> << >>,
             pubErr |-> FALSE, log |-> << >>, overlap |-> FALSE]


\* ------------------------------------------------------------ entities
IntColumns == {"id", "version"}

\* entity[field] with Go's nil for a missing key
Val(e, f) == IF f \in DOMAIN e THEN e[f] ELSE Null

\* entityValue, _ := entity[field].(string)
StringOf(e, f) ==
    IF f \in DOMAIN e /\ f \notin IntColumns /\ e[f] # Null THEN e[f] ELSE ""

\* keys of b laid over a
Overlay(a, b) ==
    [k \in DOMAIN a \cup DOMAIN b |-> IF k \in DOMAIN b THEN b[k] ELSE a[k]]

NoError == << >>

\* ------------------------------------------------------------ hooks.Executor
\* a `required` rule that accepts a missing key
runValidationLax(entity, v) ==
    IF v.Rule = "required"
      THEN IF v.Field \in DOMAIN entity
              /\ v.Field \notin IntColumns /\ entity[v.Field] = ""
             THEN << v.Message >>
             ELSE NoError
      ELSE NoError

\* value.(string) succeeds: the key is present and holds a string
IsString(entity, f) ==
    f \in DOMAIN entity /\ f \notin IntColumns /\ entity[f] # Null

runValidation(entity, v) ==
    IF v.Rule = "required"
      THEN IF v.Field \notin DOMAIN entity
              \/ (v.Field \notin IntColumns /\ entity[v.Field] \in {Null, ""})
             THEN << v.Message >>
             ELSE NoError
    ELSE IF v.Rule = "min_length"
      THEN IF IsString(entity, v.Field) /\ Len(entity[v.Field]) < v.Value
             THEN << v.Message >>
             ELSE NoError
    ELSE IF v.Rule = "in"
      THEN IF ~IsString(entity, v.Field) \/ entity[v.Field] \notin v.Value
             THEN << v.Message >>
             ELSE NoError
    ELSE NoError

RECURSIVE runValidations(_, _)
runValidations(entity, vs) ==
    IF vs = << >> THEN NoError
    ELSE IF runValidation(entity, Head(vs)) # NoError
           THEN runValidation(entity, Head(vs))
           ELSE runValidations(entity, Tail(vs))

\* a condition whose field value never asserts to string
evaluateSingleConditionNoString(cond, old, new) ==
    IF cond.Side \notin {"old", "new"} THEN FALSE
    ELSE LET entityValue == ""
         IN  CASE cond.Op = "==" -> entityValue = cond.Value
               [] cond.Op = "!=" -> entityValue # cond.Value
               [] OTHER -> FALSE

evaluateSingleCondition(cond, old, new) ==
    IF cond.Side \notin {"old", "new"} THEN FALSE
    ELSE LET entity == IF cond.Side = "old" THEN old ELSE new
             entityValue == StringOf(entity, cond.Field)
         IN  CASE cond.Op = "==" -> entityValue = cond.Value
               [] cond.Op = "!=" -> entityValue # cond.Value
               [] OTHER -> FALSE

\* the parts of the condition (split at "&&") must all hold
evaluateCondition(condition, old, new) ==
    \A i \in 1 .. Len(condition) : evaluateSingleCondition(condition[i], old, new)

RECURSIVE runRules(_, _, _)
runRules(rules, old, new) ==
    IF rules = << >> THEN NoError
    ELSE IF evaluateCondition(Head(rules).Condition, old, new)
            /\ Head(rules).Action = "reject"
           THEN << Head(rules).Message >>
           ELSE runRules(Tail(rules), old, new)

fieldChanged(old, new, field) == Val(old, field) # Val(new, field)

PreCreate(entity) ==
    IF ~Hooks.PreCreate.Enabled THEN NoError
    ELSE runValidations(entity, Hooks.PreCreate.Validations)

\* Executor.PreUpdate of a node whose pre_update slot is `slot`
PreUpdateOf(slot, old, new) ==
    IF ~slot.Enabled THEN NoError
    ELSE IF runValidations(new, slot.Validations) # NoError
           THEN runValidations(new, slot.Validations)
           ELSE runRules(slot.Rules, old, new)

PreUpdate(old, new) == PreUpdateOf(Hooks.PreUpdate, old, new)

\* The registered callbacks are application code: `failing` is the set of
\* callback names that return an error when invoked in this run.
\* an action without a callback fails the hook
RECURSIVE runActionsStrict(_, _)
runActionsStrict(actions, failing) ==
    IF actions = << >> THEN NoError
    ELSE IF Head(actions) \notin actionHandlers \/ Head(actions) \in failing
           THEN << "action failed", Head(actions) >>
           ELSE runActionsStrict(Tail(actions), failing)

RECURSIVE runActions(_, _)
runActions(actions, failing) ==
    IF actions = << >> THEN NoError
    ELSE IF Head(actions) \in actionHandlers /\ Head(actions) \in failing
           THEN << "action failed", Head(actions) >>
           ELSE runActions(Tail(actions), failing)

RECURSIVE runTriggers(_, _, _, _)
runTriggers(triggers, old, new, failing) ==
    IF triggers = << >> THEN NoError
    ELSE IF fieldChanged(old, new, Head(triggers).OnFieldChange)
            /\ Head(triggers).Action \in triggerHandlers
            /\ Head(triggers).Action \in failing
           THEN << "trigger failed", Head(triggers).Action >>
           ELSE runTriggers(Tail(triggers), old, new, failing)

\* checks whose failure is ignored
runChecksIgnored(checks, failing) == NoError

RECURSIVE runChecks(_, _)
runChecks(checks, failing) ==
    IF checks = << >> THEN NoError
    ELSE IF Head(checks) \in checkHandlers /\ Head(checks) \in failing
           THEN << "check failed", Head(checks) >>
           ELSE runChecks(Tail(checks), failing)

PostCreate(entity, failing) ==
    IF ~Hooks.PostCreate.Enabled THEN NoError
    ELSE runActions(Hooks.PostCreate.Actions, failing)

PostUpdate(old, new, failing) ==
    IF ~Hooks.PostUpdate.Enabled THEN NoError
    ELSE IF runTriggers(Hooks.PostUpdate.Triggers, old, new, failing) # NoError
           THEN runTriggers(Hooks.PostUpdate.Triggers, old, new, failing)
           ELSE runActions(Hooks.PostUpdate.Actions, failing)

PreDelete(entity, failing) ==
    IF ~Hooks.PreDelete.Enabled THEN NoError
    ELSE runChecks(Hooks.PreDelete.Checks, failing)

PostDelete(entity, failing) ==
    IF ~Hooks.PostDelete.Enabled THEN NoError
    ELSE runActions(Hooks.PostDelete.Actions, failing)

\* callbacks a hook slot can reach
SlotCallbacks(slot) ==
    { slot.Actions[i] : i \in 1 .. Len(slot.Actions) } \cap actionHandlers

TriggerCallbacks(slot) ==
    { slot.Triggers[i].Action : i \in 1 .. Len(slot.Triggers) } \cap triggerHandlers

CheckCallbacks(slot) ==
    { slot.Checks[i] : i \in 1 .. Len(slot.Checks) } \cap checkHandlers


\* ------------------------------------------------------------ the store
NoTenant  == ""      \* statement without a tenant_id predicate
NoVersion == -1      \* statement without a version predicate

\* a row satisfies the WHERE clause of an UPDATE / DELETE statement
Matches(stmt, r) ==
    /\ r.id = stmt.id
    /\ stmt.tenant # NoTenant => r.tenant_id = stmt.tenant
    /\ stmt.version # NoVersion => r.version = stmt.version
    /\ stmt.liveOnly => r.deleted_at = Null

ExecInsert(st, stmt) == [st EXCEPT ![stmt.schema] = @ \cup {stmt.row}]

ExecUpdate(st, stmt) ==
    [st EXCEPT ![stmt.schema] =
        { IF Matches(stmt, r) THEN Overlay(r, stmt.set) ELSE r : r \in @ }]

\* rows of UPDATE ... RETURNING *
Returning(st, stmt) ==
    { Overlay(r, stmt.set) : r \in { x \in st[stmt.schema] : Matches(stmt, x) } }

ExecDelete(st, stmt) ==
    [st EXCEPT ![stmt.schema] = { r \in @ : ~Matches(stmt, r) }]

\* QueryRow(...).Scan: the single row, or pgx.ErrNoRows
OneRow(rs) == IF rs = {} THEN NoEntity ELSE CHOOSE r \in rs : TRUE

\* ------------------------------------------------------------ query.Builder
BuildInsert(c, schema, data) ==
    [kind |-> "insert", schema |-> schema,
     row |-> [col \in Columns(c) |->
                 IF col \in DOMAIN data /\ col \in Properties(c)
                   THEN data[col] ELSE ColumnDefault(col)]]

BuildUpdate(c, schema, id, data) ==
    LET cols == { col \in DOMAIN data :
                    /\ col \notin {"id", "tenant_id", "created_at"}
                    /\ col \in Properties(c) }
    IN [kind |-> "update", schema |-> schema,
        set |-> [col \in cols |-> data[col]],
        id |-> id, tenant |-> NoTenant, version |-> NoVersion, liveOnly |-> FALSE]

BuildDelete(schema, id, softDelete) ==
    IF softDelete
      THEN [kind |-> "update", schema |-> schema,
            set |-> [col \in {"deleted_at"} |-> Now],
            id |-> id, tenant |-> NoTenant, version |-> NoVersion, liveOnly |-> TRUE]
      ELSE [kind |-> "delete", schema |-> schema, set |-> NoEntity,
            id |-> id, tenant |-> NoTenant, version |-> NoVersion, liveOnly |-> FALSE]

\* every leaf of the condition list names a valid property
RECURSIVE ValidFields(_, _)
ValidFields(c, conds) ==
    \A i \in 1 .. Len(conds) :
        IF Len(conds[i].Or) > 0 THEN ValidFields(c, conds[i].Or)
        ELSE IF Len(conds[i].And) > 0 THEN ValidFields(c, conds[i].And)
        ELSE conds[i].Field \in Properties(c)

\* buildSingleCondition, as the predicate the emitted SQL evaluates
EvalLeaf(cond, r) ==
    CASE cond.Operator \in {"eq", "=", ""}  -> r[cond.Field] = cond.Value
      [] cond.Operator \in {"neq", "!=", "<>"} ->
             r[cond.Field] # Null /\ r[cond.Field] # cond.Value
      [] cond.Operator = "is_null"     -> r[cond.Field] = Null
      [] cond.Operator = "is_not_null" -> r[cond.Field] # Null
      [] OTHER -> r[cond.Field] = cond.Value

\* the text of an `or` group after strings.ReplaceAll(orSQL, " AND ", " OR "):
\* every connective inside the group, at any depth, reads OR
RECURSIVE EvalAny(_, _)
EvalAny(conds, r) ==
    \E i \in 1 .. Len(conds) :
        IF Len(conds[i].Or) > 0 THEN EvalAny(conds[i].Or, r)
        ELSE IF Len(conds[i].And) > 0 THEN EvalAny(conds[i].And, r)
        ELSE EvalLeaf(conds[i], r)

\* buildConditions, as the predicate the emitted SQL evaluates: parts joined
\* with AND; an `or` group becomes "(a OR b)" by replacing " AND " inside it
RECURSIVE EvalConditions(_, _)
EvalConditions(conds, r) ==
    \A i \in 1 .. Len(conds) :
        IF Len(conds[i].Or) > 0 THEN EvalAny(conds[i].Or, r)
        ELSE IF Len(conds[i].And) > 0 THEN EvalConditions(conds[i].And, r)
        ELSE EvalLeaf(conds[i], r)

\* ------------------------------------------------------------ dal.DAL reads
GetByID(c, st, tenantID, id) ==
    OneRow({ r \in st[SchemaName(tenantID)] :
               /\ r.id = id
               /\ r.tenant_id = tenantID
               /\ c.SoftDelete => r.deleted_at = Null })

\* q.Where as DAL.Execute hands it to the Builder
ExecuteWhere(c, tenantID, where) ==
    << Leaf("tenant_id", "eq", tenantID) >> \o where
        \o (IF c.SoftDelete THEN << Leaf("deleted_at", "is_null", Null) >> ELSE << >>)

ExecuteRows(c, st, tenantID, where) ==
    { r \in st[SchemaName(tenantID)] :
        EvalConditions(ExecuteWhere(c, tenantID, where), r) }

ExecuteTotal(c, st, tenantID) ==
    Cardinality({ r \in st[SchemaName(tenantID)] :
                    /\ r.tenant_id = tenantID
                    /\ c.SoftDelete => r.deleted_at = Null })


\* ------------------------------------------------------------ requests in flight
Subject(service, tenantID, entity, action) == << service, tenantID, entity, action >>

Start(p, op, tenantID, id) ==
    [IdleProc EXCEPT !.op = op, !.tenant = tenantID, !.id = id]

\* the request returns an error
Fail(pr, e) == [pr EXCEPT !.pc = "done", !.err = e, !.out = NoEntity]

\* a request is taken by the lowest goroutine slot that is free
Free(p) == proc[p].pc \in {"idle", "done"}

\* The post hook and the publish of an operation touch nothing but the
\* operation's own result, so they commute with every step of the other
\* goroutines: they are scheduled directly after the operation's statement.
Settled == \A q \in Procs : proc[q].pc # "post"

CanStart(p) ==
    /\ Free(p)
    /\ Settled
    /\ opsLeft > 0
    /\ \A q \in Procs : q < p => ~Free(q)

\* when the next request arrives the goroutines that had replied are gone
Returned == [q \in Procs |-> IF proc[q].pc = "done" THEN IdleProc ELSE proc[q]]

Ids == 1 .. MaxIds

\* identifiers handed out so far; requests name only these
KnownIds == 1 .. (nextId - 1)

\* history: an update that has read its row and not yet written it, while the
\* update `writer` writes the same row
Overlapped(pr, writer) ==
    IF pr.op = "update" /\ pr.pc = "write"
       /\ pr.tenant = writer.tenant /\ pr.id = writer.id
      THEN [pr EXCEPT !.overlap = TRUE]
      ELSE pr

\* ------------------------------------------------------------ dal.DAL.Create
\* system fields that leave the tenant to the payload
SystemFieldsOpenTenant(c, tenantID, id) ==
    LET base == [id |-> id, created_at |-> Now, updated_at |-> Now]
    IN IF c.OptimisticLock THEN Overlay(base, [version |-> 1]) ELSE base

\* data["id"], data["tenant_id"], data["created_at"], data["updated_at"] and
\* data["version"], assigned over whatever the payload holds
SystemFields(c, tenantID, id) ==
    LET base == [id |-> id, tenant_id |-> tenantID,
                 created_at |-> Now, updated_at |-> Now]
    IN IF c.OptimisticLock THEN Overlay(base, [version |-> 1]) ELSE base

\* id, defaults, pre-create hook, INSERT ... RETURNING *
DALCreate(p, tenantID, payload) ==
    /\ cfg.engine = "sdk"
    /\ CanStart(p)
    /\ nextId <= MaxIds
    /\ LET data == Overlay(payload, SystemFields(cfg, tenantID, nextId))
           e    == PreCreate(data)
           stmt == BuildInsert(cfg, SchemaName(tenantID), data)
           pr   == [Start(p, "create", tenantID, nextId) EXCEPT !.data = data]
       IN IF e # NoError
            THEN /\ proc' = [Returned EXCEPT ![p] = Fail(pr, << "pre-create hook failed" >> \o e)]
                 /\ UNCHANGED <<store, owner>>
            ELSE /\ store' = ExecInsert(store, stmt)
                 /\ owner' = [owner EXCEPT ![nextId] = tenantID]
                 /\ proc' = [Returned EXCEPT ![p] =
                        [pr EXCEPT !.pc = "post", !.out = stmt.row,
                                   !.log = << "insert" >>]]
    /\ nextId' = nextId + 1
    /\ opsLeft' = opsLeft - 1
    /\ UNCHANGED <<job, mig, hk, rel, prov, cfg, gone>>

\* a post-hook error that undoes the insert
PostHookStoreUndo(st, pr, hookErr) ==
    IF hookErr # NoError /\ pr.op = "create"
      THEN [st EXCEPT ![SchemaName(pr.tenant)] = { r \in @ : r.id # pr.id }]
      ELSE st

\* the store after the post hook ran: the statement was executed on the pool
\* outside any transaction, and the error return compensates nothing
PostHookStore(st, pr, hookErr) == st

\* a publish error turned into the operation's error
FinishStrict(pr, hookErr, stage, action, pubOk) ==
    IF hookErr # NoError
      THEN [Fail(pr, << stage >> \o hookErr) EXCEPT !.log = Append(pr.log, "post")]
      ELSE IF cfg.eventBus
        THEN LET sent == [pr EXCEPT !.log = pr.log \o << "post", "publish" >>,
                            !.pubs = Append(pr.pubs,
                                       Subject(ServiceName, pr.tenant, NodeTable, action)),
                            !.pubErr = ~pubOk]
             IN IF pubOk THEN [sent EXCEPT !.pc = "done"]
                ELSE Fail(sent, << "publish failed" >>)
        ELSE [pr EXCEPT !.pc = "done", !.log = Append(pr.log, "post")]

\* the event published twice
FinishTwice(pr, hookErr, stage, action, pubOk) ==
    IF hookErr # NoError
      THEN [Fail(pr, << stage >> \o hookErr) EXCEPT !.log = Append(pr.log, "post")]
      ELSE IF cfg.eventBus
        THEN [pr EXCEPT !.pc = "done",
                 !.log = pr.log \o << "post", "publish" >>,
                 !.pubs = pr.pubs \o
                     << Subject(ServiceName, pr.tenant, NodeTable, action),
                        Subject(ServiceName, pr.tenant, NodeTable, action) >>,
                 !.pubErr = ~pubOk]
        ELSE [pr EXCEPT !.pc = "done", !.log = Append(pr.log, "post")]

\* post hook, then the event, then the result
Finish(pr, hookErr, stage, action, pubOk) ==
    IF hookErr # NoError
      THEN [Fail(pr, << stage >> \o hookErr) EXCEPT !.log = Append(pr.log, "post")]
      ELSE IF cfg.eventBus
        THEN [pr EXCEPT !.pc = "done",
                 !.log = pr.log \o << "post", "publish" >>,
                 !.pubs = Append(pr.pubs,
                            Subject(ServiceName, pr.tenant, NodeTable, action)),
                 !.pubErr = ~pubOk]
        ELSE [pr EXCEPT !.pc = "done", !.log = Append(pr.log, "post")]

DALCreateFinish(p) ==
    /\ cfg.engine = "sdk"
    /\ proc[p].pc = "post" /\ proc[p].op = "create"
    /\ \E failing \in SUBSET SlotCallbacks(Hooks.PostCreate), pubOk \in BOOLEAN :
          LET e == PostCreate(proc[p].out, failing)
          IN /\ proc' = [proc EXCEPT ![p] =
                           Finish(proc[p], e, "post-create hook failed", "created", pubOk)]
             /\ store' = PostHookStore(store, proc[p], e)
    /\ UNCHANGED <<job, mig, hk, rel, prov, cfg, nextId, opsLeft, owner, gone>>

\* ------------------------------------------------------------ dal.DAL.GetByID
DALGetByID(p, tenantID, id) ==
    /\ cfg.engine = "sdk"
    /\ CanStart(p)
    /\ LET e  == GetByID(cfg, store, tenantID, id)
           pr == Start(p, "get", tenantID, id)
       IN proc' = [Returned EXCEPT ![p] =
                     IF IsNil(e) THEN Fail(pr, << "no rows in result set" >>)
                     ELSE [pr EXCEPT !.pc = "done", !.out = e]]
    /\ opsLeft' = opsLeft - 1
    /\ UNCHANGED <<job, mig, hk, rel, prov, cfg, store, nextId, owner, gone>>

\* ------------------------------------------------------------ dal.DAL.Execute
DALExecute(p, tenantID, where) ==
    /\ cfg.engine = "sdk"
    /\ CanStart(p)
    /\ LET pr == [Start(p, "query", tenantID, 0) EXCEPT !.data = [where |-> where]]
       IN proc' = [Returned EXCEPT ![p] =
                     IF ~ValidFields(cfg, ExecuteWhere(cfg, tenantID, where))
                       THEN Fail(pr, << "query build failed", "invalid field" >>)
                       ELSE [pr EXCEPT !.pc = "done",
                                !.rows = ExecuteRows(cfg, store, tenantID, where),
                                !.total = ExecuteTotal(cfg, store, tenantID)]]
    /\ opsLeft' = opsLeft - 1
    /\ UNCHANGED <<job, mig, hk, rel, prov, cfg, store, nextId, owner, gone>>

\* ------------------------------------------------------------ dal.DAL.Update
\* GetByID, updated_at, pre-update hook
DALUpdate(p, tenantID, id, payload) ==
    /\ cfg.engine = "sdk"
    /\ CanStart(p)
    /\ LET old  == GetByID(cfg, store, tenantID, id)
           data == Overlay(payload, [updated_at |-> Now])
           pr   == Start(p, "update", tenantID, id)
           e    == PreUpdate(old, data)
       IN proc' = [Returned EXCEPT ![p] =
                     IF IsNil(old) THEN Fail(pr, << "entity not found" >>)
                     ELSE IF e # NoError
                       THEN Fail([pr EXCEPT !.old = old, !.data = data],
                                 << "pre-update hook failed" >> \o e)
                       ELSE [pr EXCEPT !.pc = "write", !.old = old, !.data = data]]
    /\ opsLeft' = opsLeft - 1
    /\ UNCHANGED <<job, mig, hk, rel, prov, cfg, store, nextId, owner, gone>>

\* the UPDATE statement DAL.Update sends: BuildUpdate plus, when the version
\* read from the row asserts to int, " AND version = <old version>".
\* data["version"] is assigned only after the statement was built.
UpdateStatement(c, tenantID, id, old, data) ==
    LET stmt == BuildUpdate(c, SchemaName(tenantID), id, data)
    IN IF c.OptimisticLock /\ c.versionIsInt
         THEN [stmt EXCEPT !.version = old.version]
         ELSE stmt

DALUpdateWrite(p) ==
    /\ cfg.engine = "sdk"
    /\ proc[p].pc = "write" /\ proc[p].op = "update"
    /\ Settled
    /\ LET pr   == proc[p]
           stmt == UpdateStatement(cfg, pr.tenant, pr.id, pr.old, pr.data)
           res  == OneRow(Returning(store, stmt))
       IN /\ store' = ExecUpdate(store, stmt)
          /\ proc' = [q \in Procs |->
                IF q # p
                  THEN IF ~IsNil(res) THEN Overlapped(proc[q], pr) ELSE proc[q]
                ELSE IF IsNil(res)
                  THEN Fail(pr, IF cfg.OptimisticLock
                                  THEN << "optimistic lock conflict" >>
                                  ELSE << "update failed", "no rows in result set" >>)
                  ELSE [pr EXCEPT !.pc = "post", !.out = res,
                                  !.log = << "update" >>]]
    /\ UNCHANGED <<job, mig, hk, rel, prov, cfg, nextId, opsLeft, owner, gone>>

DALUpdateFinish(p) ==
    /\ cfg.engine = "sdk"
    /\ proc[p].pc = "post" /\ proc[p].op = "update"
    /\ \E failing \in SUBSET (SlotCallbacks(Hooks.PostUpdate)
                                \cup TriggerCallbacks(Hooks.PostUpdate)),
          pubOk \in BOOLEAN :
          LET e == PostUpdate(proc[p].old, proc[p].out, failing)
          IN /\ proc' = [proc EXCEPT ![p] =
                           Finish(proc[p], e, "post-update hook failed", "updated", pubOk)]
             /\ store' = PostHookStore(store, proc[p], e)
    /\ UNCHANGED <<job, mig, hk, rel, prov, cfg, nextId, opsLeft, owner, gone>>

\* ------------------------------------------------------------ dal.DAL.Delete
\* GetByID, pre-delete hook
DALDelete(p, tenantID, id) ==
    /\ cfg.engine = "sdk"
    /\ CanStart(p)
    /\ \E failing \in SUBSET CheckCallbacks(Hooks.PreDelete) :
         LET entity == GetByID(cfg, store, tenantID, id)
             pr     == [Start(p, "delete", tenantID, id) EXCEPT
                           !.data = [failing |-> failing]]
             e      == PreDelete(entity, failing)
         IN proc' = [Returned EXCEPT ![p] =
                       IF IsNil(entity) THEN Fail(pr, << "no rows in result set" >>)
                       ELSE IF e # NoError
                         THEN Fail([pr EXCEPT !.old = entity],
                                   << "pre-delete hook failed" >> \o e)
                         ELSE [pr EXCEPT !.pc = "write", !.old = entity]]
    /\ opsLeft' = opsLeft - 1
    /\ UNCHANGED <<job, mig, hk, rel, prov, cfg, store, nextId, owner, gone>>

\* db.Exec of the BuildDelete statement; the affected-row count is dropped
DALDeleteWrite(p) ==
    /\ cfg.engine = "sdk"
    /\ proc[p].pc = "write" /\ proc[p].op = "delete"
    /\ Settled
    /\ LET pr   == proc[p]
           stmt == BuildDelete(SchemaName(pr.tenant), pr.id, cfg.SoftDelete)
       IN /\ store' = IF stmt.kind = "update" THEN ExecUpdate(store, stmt)
                      ELSE ExecDelete(store, stmt)
          /\ gone' = gone \cup { r.id : r \in { x \in store[stmt.schema] : Matches(stmt, x) } }
          /\ proc' = [proc EXCEPT ![p] = [pr EXCEPT !.pc = "post", !.log = << "delete" >>]]
    /\ UNCHANGED <<job, mig, hk, rel, prov, cfg, nextId, opsLeft, owner>>

DALDeleteFinish(p) ==
    /\ cfg.engine = "sdk"
    /\ proc[p].pc = "post" /\ proc[p].op = "delete"
    /\ \E failing \in SUBSET SlotCallbacks(Hooks.PostDelete), pubOk \in BOOLEAN :
          LET e == PostDelete(proc[p].old, failing)
          IN /\ proc' = [proc EXCEPT ![p] =
                           Finish(proc[p], e, "post-delete hook failed", "deleted", pubOk)]
             /\ store' = PostHookStore(store, proc[p], e)
    /\ UNCHANGED <<job, mig, hk, rel, prov, cfg, nextId, opsLeft, owner, gone>>

\* ------------------------------------------------------------ dal-service: QueryExecutor
\* buildCondition: the clause and its parameter; N is the first placeholder
\* of the clause, K the number of placeholders, isNil whether param == nil
buildCondition(cond, paramNum) ==
    CASE cond.Operator \in {"eq", "=", "ne", "!=", "gt", ">", "gte", ">=",
                            "lt", "<", "lte", "<=", "like"} ->
             [clause |-> << [Field |-> cond.Field, Operator |-> cond.Operator,
                             N |-> paramNum, K |-> 1] >>,
              param |-> IF cond.Arr THEN cond.Values ELSE cond.Value,
              isNil |-> ~cond.Arr /\ cond.Value = Null]
      [] cond.Operator = "in" /\ cond.Arr ->
             [clause |-> << [Field |-> cond.Field, Operator |-> cond.Operator,
                             N |-> paramNum, K |-> Len(cond.Values)] >>,
              param |-> cond.Values, isNil |-> FALSE]
      [] cond.Operator \in {"is_null", "is_not_null"} ->
             [clause |-> << [Field |-> cond.Field, Operator |-> cond.Operator,
                             N |-> 0, K |-> 0] >>,
              param |-> Null, isNil |-> TRUE]
      [] OTHER -> [clause |-> << >>, param |-> Null, isNil |-> TRUE]

\* buildWhereClause, after the tenant (and soft-delete) clauses: paramCount
\* advances for every condition, a parameter is appended only when non-nil
RECURSIVE buildWhereConditions(_, _)
buildWhereConditions(conditions, paramCount) ==
    IF conditions = << >> THEN [clauses |-> << >>, params |-> << >>]
    ELSE LET b    == buildCondition(Head(conditions), paramCount + 1)
             rest == buildWhereConditions(Tail(conditions), paramCount + 1)
         IN [clauses |-> b.clause \o rest.clauses,
             params  |-> (IF b.clause # << >> /\ ~b.isNil
                            THEN << b.param >> ELSE << >>) \o rest.params]

buildWhereClause(conditions, tenantID) ==
    LET w == buildWhereConditions(conditions, 1)
    IN [clauses |-> w.clauses, params |-> << tenantID >> \o w.params]

\* the store rejects the statement: unknown column, a placeholder without a
\* bound parameter, or an array bound to the placeholder of "col IN ($n)"
WhereRejected(c, w) ==
    \E i \in 1 .. Len(w.clauses) :
        \/ w.clauses[i].Field \notin Columns(c)
        \/ w.clauses[i].N + w.clauses[i].K - 1 > Len(w.params)
        \/ w.clauses[i].Operator = "in"

EvalClause(cl, params, r) ==
    CASE cl.Operator \in {"eq", "="}   -> r[cl.Field] = params[cl.N]
      [] cl.Operator \in {"ne", "!="}  ->
             r[cl.Field] # Null /\ r[cl.Field] # params[cl.N]
      [] cl.Operator = "is_null"       -> r[cl.Field] = Null
      [] cl.Operator = "is_not_null"   -> r[cl.Field] # Null
      [] OTHER -> FALSE

\* rows selected by "tenant_id = $1 [AND deleted_at IS NULL] AND <clauses>"
SvcRows(c, st, tenantID, w) ==
    { r \in st[SchemaName(tenantID)] :
        /\ r.tenant_id = w.params[1]
        /\ c.SoftDelete => r.deleted_at = Null
        /\ \A i \in 1 .. Len(w.clauses) : EvalClause(w.clauses[i], w.params, r) }

\* QueryExecutor.Update: SET every key of data
SvcUpdateStatement(c, tenantID, id, data, currentVersion) ==
    [kind |-> "update", schema |-> SchemaName(tenantID),
     set |-> data, id |-> id, tenant |-> tenantID,
     version |-> IF c.OptimisticLock THEN currentVersion ELSE NoVersion,
     liveOnly |-> FALSE]

\* QueryExecutor.Delete
SvcDeleteStatement(c, tenantID, id) ==
    IF c.SoftDelete
      THEN [kind |-> "update", schema |-> SchemaName(tenantID),
            set |-> [col \in {"deleted_at"} |-> Now],
            id |-> id, tenant |-> tenantID, version |-> NoVersion, liveOnly |-> FALSE]
      ELSE [kind |-> "delete", schema |-> SchemaName(tenantID), set |-> NoEntity,
            id |-> id, tenant |-> tenantID, version |-> NoVersion, liveOnly |-> FALSE]

\* publishEvent, then replySuccess; the result of nc.Publish is dropped
publishEvent(pr, action, pubOk) ==
    [pr EXCEPT !.pc = "done",
               !.log = Append(pr.log, "publish"),
               !.pubs = Append(pr.pubs, Subject(ServiceName, pr.tenant, NodeName, action)),
               !.pubErr = ~pubOk]

\* ------------------------------------------------------------ dal-service: handlers
\* handleCreate up to and including the INSERT of QueryExecutor.Create
handleCreate(p, tenantID, payload) ==
    /\ cfg.engine = "svc"
    /\ CanStart(p)
    /\ nextId <= MaxIds
    /\ LET data == Overlay(payload, SystemFields(cfg, tenantID, nextId))
           pr   == [Start(p, "create", tenantID, nextId) EXCEPT !.data = data]
           row  == [col \in Columns(cfg) |->
                       IF col \in DOMAIN data THEN data[col] ELSE ColumnDefault(col)]
       IN IF ~(DOMAIN data \subseteq Columns(cfg))
            THEN /\ proc' = [Returned EXCEPT ![p] = Fail(pr, << "insert failed" >>)]
                 /\ UNCHANGED <<store, owner>>
            ELSE /\ store' = ExecInsert(store, [schema |-> SchemaName(tenantID), row |-> row])
                 /\ owner' = [owner EXCEPT ![nextId] = tenantID]
                 /\ proc' = [Returned EXCEPT ![p] =
                        [pr EXCEPT !.pc = "post", !.out = row, !.log = << "insert" >>]]
    /\ nextId' = nextId + 1
    /\ opsLeft' = opsLeft - 1
    /\ UNCHANGED <<job, mig, hk, rel, prov, cfg, gone>>

handleCreateReply(p) ==
    /\ cfg.engine = "svc"
    /\ proc[p].pc = "post" /\ proc[p].op = "create"
    /\ \E pubOk \in BOOLEAN :
          proc' = [proc EXCEPT ![p] = publishEvent(proc[p], "created", pubOk)]
    /\ UNCHANGED <<job, mig, hk, rel, prov, cfg, store, nextId, opsLeft, owner, gone>>

\* handleUpdate up to the UPDATE: with optimistic locking the current version
\* is read first (no soft-delete filter) and version+1 goes into the SET list
handleUpdate(p, tenantID, id, payload) ==
    /\ cfg.engine = "svc"
    /\ CanStart(p)
    /\ LET pr  == Start(p, "update", tenantID, id)
           cur == { r \in store[SchemaName(tenantID)] :
                      r.id = id /\ r.tenant_id = tenantID }
           row == OneRow(cur)
       IN proc' = [Returned EXCEPT ![p] =
            IF cfg.OptimisticLock
              THEN IF cur = {}
                     THEN Fail(pr, << "failed to get current version" >>)
                     ELSE [pr EXCEPT !.pc = "write", !.old = [version |-> row.version],
                              !.data = Overlay(Overlay(payload,
                                          [version |-> row.version + 1]),
                                          [updated_at |-> Now])]
              ELSE [pr EXCEPT !.pc = "write",
                       !.data = Overlay(payload, [updated_at |-> Now])]]
    /\ opsLeft' = opsLeft - 1
    /\ UNCHANGED <<job, mig, hk, rel, prov, cfg, store, nextId, owner, gone>>

handleUpdateWrite(p) ==
    /\ cfg.engine = "svc"
    /\ proc[p].pc = "write" /\ proc[p].op = "update"
    /\ Settled
    /\ LET pr   == proc[p]
           stmt == SvcUpdateStatement(cfg, pr.tenant, pr.id, pr.data,
                                      Val(pr.old, "version"))
       IN IF ~(DOMAIN pr.data \subseteq Columns(cfg))
            THEN /\ proc' = [proc EXCEPT ![p] = Fail(pr, << "update failed" >>)]
                 /\ UNCHANGED store
            ELSE LET res == OneRow(Returning(store, stmt))
                 IN /\ store' = ExecUpdate(store, stmt)
                    /\ proc' = [q \in Procs |->
                          IF q # p
                            THEN IF ~IsNil(res) THEN Overlapped(proc[q], pr) ELSE proc[q]
                          ELSE IF IsNil(res)
                            THEN Fail(pr, IF cfg.OptimisticLock
                                            THEN << "optimistic lock conflict" >>
                                            ELSE << "update failed", "no rows in result set" >>)
                            ELSE [pr EXCEPT !.pc = "post", !.out = res,
                                            !.log = << "update" >>]]
    /\ UNCHANGED <<job, mig, hk, rel, prov, cfg, nextId, opsLeft, owner, gone>>

handleUpdateReply(p) ==
    /\ cfg.engine = "svc"
    /\ proc[p].pc = "post" /\ proc[p].op = "update"
    /\ \E pubOk \in BOOLEAN :
          proc' = [proc EXCEPT ![p] = publishEvent(proc[p], "updated", pubOk)]
    /\ UNCHANGED <<job, mig, hk, rel, prov, cfg, store, nextId, opsLeft, owner, gone>>

\* handleDelete up to and including the statement of QueryExecutor.Delete
handleDelete(p, tenantID, id) ==
    /\ cfg.engine = "svc"
    /\ CanStart(p)
    /\ LET pr   == Start(p, "delete", tenantID, id)
           stmt == SvcDeleteStatement(cfg, tenantID, id)
           hit  == { r \in store[stmt.schema] : Matches(stmt, r) }
       IN /\ store' = IF stmt.kind = "update" THEN ExecUpdate(store, stmt)
                      ELSE ExecDelete(store, stmt)
          /\ gone' = gone \cup { r.id : r \in hit }
          /\ proc' = [Returned EXCEPT ![p] =
                IF hit = {} THEN Fail(pr, << "entity not found" >>)
                ELSE [pr EXCEPT !.pc = "post", !.log = << "delete" >>]]
    /\ opsLeft' = opsLeft - 1
    /\ UNCHANGED <<job, mig, hk, rel, prov, cfg, nextId, owner>>

handleDeleteReply(p) ==
    /\ cfg.engine = "svc"
    /\ proc[p].pc = "post" /\ proc[p].op = "delete"
    /\ \E pubOk \in BOOLEAN :
          proc' = [proc EXCEPT ![p] = publishEvent(proc[p], "deleted", pubOk)]
    /\ UNCHANGED <<job, mig, hk, rel, prov, cfg, store, nextId, opsLeft, owner, gone>>

handleGet(p, tenantID, id) ==
    /\ cfg.engine = "svc"
    /\ CanStart(p)
    /\ LET e  == GetByID(cfg, store, tenantID, id)
           pr == Start(p, "get", tenantID, id)
       IN proc' = [Returned EXCEPT ![p] =
                     IF IsNil(e) THEN Fail(pr, << "no rows in result set" >>)
                     ELSE [pr EXCEPT !.pc = "done", !.out = e]]
    /\ opsLeft' = opsLeft - 1
    /\ UNCHANGED <<job, mig, hk, rel, prov, cfg, store, nextId, owner, gone>>

handleQuery(p, tenantID, where) ==
    /\ cfg.engine = "svc"
    /\ CanStart(p)
    /\ LET pr == [Start(p, "query", tenantID, 0) EXCEPT !.data = [where |-> where]]
           w  == buildWhereClause(where, tenantID)
       IN proc' = [Returned EXCEPT ![p] =
                     IF WhereRejected(cfg, w)
                       THEN Fail(pr, << "count query failed" >>)
                       ELSE [pr EXCEPT !.pc = "done",
                                !.rows = SvcRows(cfg, store, tenantID, w),
                                !.total = Cardinality(SvcRows(cfg, store, tenantID, w))]]
    /\ opsLeft' = opsLeft - 1
    /\ UNCHANGED <<job, mig, hk, rel, prov, cfg, store, nextId, owner, gone>>

\* ------------------------------------------------------------ specification
\* versionIsInt: whether old["version"].(int) succeeds on the value the driver
\* scanned (sdk only); eventBus: whether the DAL was given a publisher
Configs ==
    { c \in [engine : {"sdk", "svc"}, SoftDelete : BOOLEAN, OptimisticLock : BOOLEAN,
             versionIsInt : BOOLEAN, eventBus : BOOLEAN] :
        /\ c.versionIsInt => c.engine = "sdk" /\ c.OptimisticLock
        /\ c.engine = "svc" => c.eventBus
        /\ ~c.eventBus => c.SoftDelete /\ ~c.OptimisticLock }

Init ==
    /\ cfg \in Configs
    /\ store = [s \in Schemas |-> {}]
    /\ nextId = 1
    /\ opsLeft = MaxOps
    /\ proc = [p \in Procs |-> IdleProc]
    /\ owner = [i \in Ids |-> "none"]
    /\ gone = {}
    /\ job = NoJob
    /\ mig = NoMig
    /\ hk = NoHook /\ rel = NoRel /\ prov = NoProv

Next ==
    \/ \E p \in Procs, t \in Tenants, d \in CreatePayloads : DALCreate(p, t, d)
    \/ \E p \in Procs : DALCreateFinish(p)
    \/ \E p \in Procs, t \in Tenants, i \in KnownIds : DALGetByID(p, t, i)
    \/ \E p \in Procs, t \in Tenants, q \in Queries : DALExecute(p, t, q)
    \/ \E p \in Procs, t \in Tenants, i \in KnownIds, d \in UpdatePayloads : DALUpdate(p, t, i, d)
    \/ \E p \in Procs : DALUpdateWrite(p)
    \/ \E p \in Procs : DALUpdateFinish(p)
    \/ \E p \in Procs, t \in Tenants, i \in KnownIds : DALDelete(p, t, i)
    \/ \E p \in Procs : DALDeleteWrite(p)
    \/ \E p \in Procs : DALDeleteFinish(p)
    \/ \E p \in Procs, t \in Tenants, d \in CreatePayloads : handleCreate(p, t, d)
    \/ \E p \in Procs : handleCreateReply(p)
    \/ \E p \in Procs, t \in Tenants, i \in KnownIds, d \in UpdatePayloads : handleUpdate(p, t, i, d)
    \/ \E p \in Procs : handleUpdateWrite(p)
    \/ \E p \in Procs : handleUpdateReply(p)
    \/ \E p \in Procs, t \in Tenants, i \in KnownIds : handleDelete(p, t, i)
    \/ \E p \in Procs : handleDeleteReply(p)
    \/ \E p \in Procs, t \in Tenants, i \in KnownIds : handleGet(p, t, i)
    \/ \E p \in Procs, t \in Tenants, q \in Queries : handleQuery(p, t, q)

Spec == Init /\ [][Next]_vars


\* ============================================================ query compiler
\* SQL text as a sequence of tokens: k the keyword or operator, f the
\* identifier it applies to, n the placeholders $i it carries, v a literal
\* number, s the schema qualifying a table
NoSchema == << >>

Tok(k, f, n) == [k |-> k, f |-> f, n |-> n, v |-> 0, s |-> NoSchema]

Kw(k) == Tok(k, "", << >>)

\* strings.Join(parts, sep)
RECURSIVE Join(_, _)
Join(parts, sep) ==
    IF parts = << >> THEN << >>
    ELSE IF Len(parts) = 1 THEN parts[1]
    ELSE parts[1] \o << sep >> \o Join(Tail(parts), sep)

\* strings.ReplaceAll(sql, " AND ", " OR ")
ReplaceAll(sql) ==
    [i \in 1 .. Len(sql) |-> IF sql[i].k = "AND" THEN Kw("OR") ELSE sql[i]]

\* "(%s)"
Paren(sql) == << Kw("(") >> \o sql \o << Kw(")") >>

\* the comparison operators of buildSingleCondition, default included
SqlOperator(op) ==
    CASE op \in {"eq", "=", ""}      -> "="
      [] op \in {"neq", "!=", "<>"}  -> "!="
      [] op \in {"gt", ">"}          -> ">"
      [] op \in {"gte", ">="}        -> ">="
      [] op \in {"lt", "<"}          -> "<"
      [] op \in {"lte", "<="}        -> "<="
      [] op = "like"                 -> "LIKE"
      [] op = "ilike"                -> "ILIKE"
      [] OTHER                       -> "="

\* nothing emitted: the sql stays "" and paramIdx where it was
NoCondition(paramIdx) ==
    [sql |-> << >>, params |-> << >>, idx |-> paramIdx, err |-> NoError]

buildSingleCondition(c, paramIdx) ==
    CASE c.Operator \in {"in", "not_in"} ->
             IF c.Arr
               THEN [sql |-> << Tok(IF c.Operator = "in" THEN "IN" ELSE "NOT IN",
                                    c.Field,
                                    [j \in 1 .. Len(c.Values) |-> paramIdx + j - 1]) >>,
                     params |-> c.Values,
                     idx |-> paramIdx + Len(c.Values),
                     err |-> NoError]
               ELSE NoCondition(paramIdx)
      [] c.Operator = "is_null" ->
             [NoCondition(paramIdx) EXCEPT !.sql = << Tok("IS NULL", c.Field, << >>) >>]
      [] c.Operator = "is_not_null" ->
             [NoCondition(paramIdx) EXCEPT !.sql = << Tok("IS NOT NULL", c.Field, << >>) >>]
      [] c.Operator = "between" ->
             IF c.Arr /\ Len(c.Values) = 2
               THEN [sql |-> << Tok("BETWEEN", c.Field, << paramIdx >>),
                                Kw("AND"),
                                Tok("$", "", << paramIdx + 1 >>) >>,
                     params |-> c.Values,
                     idx |-> paramIdx + 2,
                     err |-> NoError]
               ELSE NoCondition(paramIdx)
      [] OTHER ->
             [sql |-> << Tok(SqlOperator(c.Operator), c.Field, << paramIdx >>) >>,
              params |-> << IF c.Arr THEN c.Values ELSE c.Value >>,
              idx |-> paramIdx + 1,
              err |-> NoError]

\* return "", nil, 0, err
BuildFailed(e) == [sql |-> << >>, params |-> << >>, idx |-> 0, err |-> e]

\* buildConditions: conditionParts is its loop, which collects one part per
\* condition; the parts are joined with " AND "
RECURSIVE buildConditions(_, _, _), conditionParts(_, _, _)
conditionParts(props, conditions, paramIdx) ==
    IF conditions = << >>
      THEN [parts |-> << >>, params |-> << >>, idx |-> paramIdx, err |-> NoError]
      ELSE LET c == Head(conditions)
               one ==
                 IF Len(c.Or) > 0
                   THEN LET g == buildConditions(props, c.Or, paramIdx)
                        IN [g EXCEPT !.sql = Paren(ReplaceAll(g.sql))]
                 ELSE IF Len(c.And) > 0
                   THEN LET g == buildConditions(props, c.And, paramIdx)
                        IN [g EXCEPT !.sql = Paren(g.sql)]
                 ELSE IF c.Field \notin props
                   THEN BuildFailed(<< "invalid field", c.Field >>)
                 ELSE buildSingleCondition(c, paramIdx)
           IN IF one.err # NoError
                THEN [parts |-> << >>, params |-> << >>, idx |-> 0, err |-> one.err]
                ELSE LET rest == conditionParts(props, Tail(conditions), one.idx)
                     IN IF rest.err # NoError THEN rest
                        ELSE [parts |-> << one.sql >> \o rest.parts,
                              params |-> one.params \o rest.params,
                              idx |-> rest.idx,
                              err |-> NoError]

buildConditions(props, conditions, paramIdx) ==
    LET b == conditionParts(props, conditions, paramIdx)
    IN IF b.err # NoError THEN BuildFailed(b.err)
       ELSE [sql |-> Join(b.parts, Kw("AND")), params |-> b.params,
             idx |-> b.idx, err |-> NoError]

\* " LIMIT %d", " OFFSET %d"
Paging(q) ==
    (IF q.Limit > 0 THEN << [Kw("LIMIT") EXCEPT !.v = q.Limit] >> ELSE << >>)
    \o (IF q.Offset > 0 THEN << [Kw("OFFSET") EXCEPT !.v = q.Offset] >> ELSE << >>)

\* Builder.Build: the statement, its parameters and the error
Build(props, schema, q) ==
    LET w == IF Len(q.Where) > 0 THEN buildConditions(props, q.Where, 1)
             ELSE NoCondition(1)
    IN IF \E i \in 1 .. Len(q.Select) : q.Select[i] \notin props
         THEN [sql |-> << >>, params |-> << >>, err |-> << "invalid field" >>]
       ELSE IF w.err # NoError
         THEN [sql |-> << >>, params |-> << >>, err |-> w.err]
       ELSE IF \E i \in 1 .. Len(q.OrderBy) : q.OrderBy[i].Field \notin props
         THEN [sql |-> << >>, params |-> << >>, err |-> << "invalid order field" >>]
       ELSE [sql |->
               << Kw("SELECT") >>
               \o (IF Len(q.Select) = 0 THEN << Kw("*") >>
                   ELSE [i \in 1 .. Len(q.Select) |-> Tok("column", q.Select[i], << >>)])
               \o << [Tok("FROM", q.From, << >>) EXCEPT !.s = schema] >>
               \o (IF Len(q.Where) > 0 THEN << Kw("WHERE") >> \o w.sql ELSE << >>)
               \o (IF Len(q.OrderBy) > 0 THEN << Kw("ORDER BY") >> ELSE << >>)
               \o [i \in 1 .. Len(q.OrderBy) |->
                     Tok(IF q.OrderBy[i].Dir \in {"desc", "DESC"} THEN "DESC" ELSE "ASC",
                         q.OrderBy[i].Field, << >>)]
               \o Paging(q),
             params |-> w.params,
             err |-> NoError]

\* ------------------------------------------------------------ QueryExecutor clauses
SvcSystemFields ==
    {"id", "tenant_id", "created_at", "updated_at", "created_by", "updated_by",
     "deleted_at", "deleted_by", "version"}

isValidField(field, c) == field \in SvcSystemFields \cup Properties(c)

\* the valid names of the projection; "*" when none is left or one is "*"
buildSelectClause(fields, c) ==
    LET validFields == SelectSeq(fields, LAMBDA f : isValidField(f, c))
    IN IF Len(fields) = 0 \/ validFields = << >>
          \/ \E i \in 1 .. Len(fields) :
                /\ fields[i] = "*"
                /\ \A j \in 1 .. i - 1 : fields[j] # "*"
         THEN << Kw("*") >>
         ELSE [i \in 1 .. Len(validFields) |-> Tok("column", validFields[i], << >>)]

buildOrderClause(orderBy) ==
    [i \in 1 .. Len(orderBy) |->
        Tok(IF orderBy[i].Desc THEN "DESC" ELSE "ASC", orderBy[i].Field, << >>)]

\* the SQL operator buildCondition writes for a JSON operator
ClauseOperator(op) ==
    CASE op \in {"eq", "="}    -> "="
      [] op \in {"ne", "!="}   -> "!="
      [] op \in {"gt", ">"}    -> ">"
      [] op \in {"gte", ">="}  -> ">="
      [] op \in {"lt", "<"}    -> "<"
      [] op \in {"lte", "<="}  -> "<="
      [] op = "like"           -> "LIKE"
      [] op = "in"             -> "IN"
      [] op = "is_null"        -> "IS NULL"
      [] op = "is_not_null"    -> "IS NOT NULL"

\* the text of one clause of buildCondition
ClauseText(cl) ==
    Tok(ClauseOperator(cl.Operator), cl.Field, [j \in 1 .. cl.K |-> cl.N + j - 1])

\* strings.Join(clauses, " AND ") of buildWhereClause
WhereText(c, w) ==
    Join(<< << Tok("=", "tenant_id", << 1 >>) >> >>
         \o (IF c.SoftDelete THEN << << Tok("IS NULL", "deleted_at", << >>) >> >>
             ELSE << >>)
         \o [i \in 1 .. Len(w.clauses) |-> << ClauseText(w.clauses[i]) >>],
         Kw("AND"))

\* mainQuery and whereParams of QueryExecutor.Execute; it has no error path
\* before the statement is sent
MainQuery(c, tenantID, q) ==
    LET w == buildWhereClause(q.Where, tenantID)
        o == buildOrderClause(q.OrderBy)
    IN [sql |->
          << Kw("SELECT") >> \o buildSelectClause(q.Select, c)
          \o << [Tok("FROM", NodeTable, << >>) EXCEPT !.s = SchemaName(tenantID)] >>
          \o << Kw("WHERE") >> \o WhereText(c, w)
          \o (IF o # << >> THEN << Kw("ORDER BY") >> \o o ELSE << >>)
          \o Paging(q),
        params |-> w.params,
        err |-> NoError]

\* ------------------------------------------------------------ compile specification
\* the CRUD engines' variables, which the compiler leaves alone
crud == <<cfg, store, nextId, opsLeft, proc, owner, gone>>

LeafA == Leaf("status", "eq", "open")
LeafB == Leaf("title", "eq", "x")
LeafC == Leaf("status", "neq", "closed")
LeafD == Leaf("title", "like", "y")
LeafUnknown == Leaf("bogus", "eq", "b")

CompileSelects == { << >>, << "title" >>, << "title", "bogus" >> }

CompileWheres == {
    << >>,
    << LeafA >>,
    << LeafA, LeafUnknown >>,
    << OrGroup(<< LeafA, LeafB >>) >>,
    << OrGroup(<< AndGroup(<< LeafA, LeafB >>), AndGroup(<< LeafC, LeafD >>) >>) >>,
    << LeafA, AndGroup(<< LeafB, OrGroup(<< LeafC, LeafD >>) >>) >>,
    << OrGroup(<< LeafA, AndGroup(<< LeafB, LeafUnknown >>) >>) >>,
    << Leaf("deleted_at", "is_null", Null), LeafA >>,
    << Leaf("title", "is_not_null", Null) >>,
    << ArrLeaf("status", "in", << "open", "closed" >>), LeafB >>,
    << ArrLeaf("status", "not_in", << "closed" >>), LeafB >>,
    << Leaf("status", "in", "open"), LeafB >>,
    << ArrLeaf("created_at", "between", << "a", "z" >>), LeafA >>,
    << OrGroup(<< ArrLeaf("created_at", "between", << "a", "z" >>), LeafA >>) >>,
    << ArrLeaf("status", "in", << >>), LeafB >>,
    << LeafB, ArrLeaf("status", "not_in", << >>) >>,
    << ArrLeaf("created_at", "between", << "a" >>), LeafA >>,
    << LeafA, ArrLeaf("created_at", "between", << "a", "m", "z" >>) >>,
    << Leaf("created_at", "between", "a") >> }

CompileOrders == {
    << >>,
    << [Field |-> "title", Dir |-> "desc", Desc |-> TRUE] >>,
    << [Field |-> "bogus", Dir |-> "asc", Desc |-> FALSE] >> }

CompileQueries ==
    [Select : CompileSelects, From : {NodeTable}, Where : CompileWheres,
     OrderBy : CompileOrders, Limit : {0, 2}, Offset : {0, 1}]

CompileInit ==
    /\ cfg \in Configs
    /\ store = [s \in Schemas |-> {}]
    /\ nextId = 1
    /\ opsLeft = MaxOps
    /\ proc = [p \in Procs |-> IdleProc]
    /\ owner = [i \in Ids |-> "none"]
    /\ gone = {}
    /\ job \in { [pc |-> "ready", tenant |-> t, q |-> q,
                  sql |-> << >>, params |-> << >>, err |-> NoError] :
                 t \in Tenants, q \in CompileQueries }
    /\ mig = NoMig
    /\ hk = NoHook /\ rel = NoRel /\ prov = NoProv

\* the SDK compiles the query with the Builder
BuilderBuild ==
    /\ cfg.engine = "sdk"
    /\ job.pc = "ready"
    /\ LET b == Build(Properties(cfg), SchemaName(job.tenant), job.q)
       IN job' = [job EXCEPT !.pc = "built", !.sql = b.sql,
                             !.params = b.params, !.err = b.err]
    /\ UNCHANGED <<crud, mig, hk, rel, prov>>

\* the dal-service formats its statement in QueryExecutor.Execute
ExecutorBuild ==
    /\ cfg.engine = "svc"
    /\ job.pc = "ready"
    /\ LET b == MainQuery(cfg, job.tenant, job.q)
       IN job' = [job EXCEPT !.pc = "built", !.sql = b.sql,
                             !.params = b.params, !.err = b.err]
    /\ UNCHANGED <<crud, mig, hk, rel, prov>>

CompileNext ==
    \/ BuilderBuild
    \/ ExecutorBuild

CompileSpec == CompileInit /\ [][CompileNext]_vars

\* ============================================================ schema migration
\* (dal-service Migrator: the registered DSL of a service against a new one)

PropertyDefinition(name, type, required) ==
    [Name |-> name, Type |-> type, Required |-> required]

IndexDefinition(name) == [Name |-> name]

NodeDefinition(name, table, props, indexes) ==
    [Name |-> name, Table |-> table, Properties |-> props, Indexes |-> indexes]

DSLDefinition(nodes) == [Nodes |-> nodes]

\* one schema operation of a migration list; Ref is the name of the node,
\* property or index definition its pointer designates
Migration(type, table, column, indexName, ref) ==
    [Type |-> type, Table |-> table, Column |-> column,
     IndexName |-> indexName, Ref |-> ref]

\* make(map[string]T) filled from a list: a later entry replaces an earlier
\* one of the same name
MapByName(list) ==
    [n \in { list[i].Name : i \in DOMAIN list } |->
        list[CHOOSE i \in DOMAIN list :
                /\ list[i].Name = n
                /\ \A j \in DOMAIN list : list[j].Name = n => j <= i]]

\* the orders in which a range over a Go map may visit its keys
RangeOrders(keys) ==
    { o \in [1..Cardinality(keys) -> keys] :
        \A i, j \in 1..Cardinality(keys) : i # j => o[i] # o[j] }

RECURSIVE Flat(_)
Flat(lists) ==
    IF lists = << >> THEN << >> ELSE Head(lists) \o Flat(Tail(lists))

\* what &v of a range variable v designates once the loop has ended: the
\* element of its own iteration, or, where the loop shares one variable
\* between its iterations, the element visited last
LoopRef(shared, order, own) == IF shared THEN order[Len(order)] ELSE own

compareIndexes(old, new, shared) ==
    LET oldIndexes == MapByName(old.Indexes)
        newIndexes == MapByName(new.Indexes)
        created(o, n) ==
            IF n \notin DOMAIN oldIndexes
            THEN << Migration("CREATE_INDEX", new.Table, "", "",
                              LoopRef(shared, o, n)) >>
            ELSE << >>
        dropped(n) ==
            IF n \notin DOMAIN newIndexes
            THEN << Migration("DROP_INDEX", new.Table, "", n, "") >>
            ELSE << >>
    IN { Flat([i \in DOMAIN o |-> created(o, o[i])])
            \o Flat([i \in DOMAIN d |-> dropped(d[i])]) :
         o \in RangeOrders(DOMAIN newIndexes),
         d \in RangeOrders(DOMAIN oldIndexes) }

compareNodesKeepsDropped(old, new, shared) ==
    LET oldProps == MapByName(old.Properties)
        newProps == MapByName(new.Properties)
        column(o, n) ==
            IF n \notin DOMAIN oldProps
            THEN << Migration("ADD_COLUMN", new.Table, n, "",
                              LoopRef(shared, o, n)) >>
            ELSE IF oldProps[n].Type # newProps[n].Type
                 THEN << Migration("ALTER_COLUMN", new.Table, n, "",
                                   LoopRef(shared, o, n)) >>
                 ELSE << >>
    IN { Flat([i \in DOMAIN o |-> column(o, o[i])]) \o x :
         o \in RangeOrders(DOMAIN newProps),
         x \in compareIndexes(old, new, shared) }

compareNodes(old, new, shared) ==
    LET oldProps == MapByName(old.Properties)
        newProps == MapByName(new.Properties)
        column(o, n) ==
            IF n \notin DOMAIN oldProps
            THEN << Migration("ADD_COLUMN", new.Table, n, "",
                              LoopRef(shared, o, n)) >>
            ELSE IF oldProps[n].Type # newProps[n].Type
                 THEN << Migration("ALTER_COLUMN", new.Table, n, "",
                                   LoopRef(shared, o, n)) >>
                 ELSE << >>
        dropped(n) ==
            IF n \notin DOMAIN newProps
            THEN << Migration("DROP_COLUMN", new.Table, n, "", "") >>
            ELSE << >>
    IN { Flat([i \in DOMAIN o |-> column(o, o[i])])
            \o Flat([i \in DOMAIN d |-> dropped(d[i])]) \o x :
         o \in RangeOrders(DOMAIN newProps),
         d \in RangeOrders(DOMAIN oldProps),
         x \in compareIndexes(old, new, shared) }

\* the lists the first loop of compareDSL may append for the nodes o[i..]
RECURSIVE newTables(_, _, _, _, _)
newTables(oldNodes, newNodes, shared, o, i) ==
    IF i > Len(o) THEN { << >> }
    ELSE LET name == o[i]
             here == IF name \notin DOMAIN oldNodes
                     THEN { << Migration("CREATE_TABLE", newNodes[name].Table,
                                         "", "", LoopRef(shared, o, name)) >> }
                     ELSE compareNodes(oldNodes[name], newNodes[name], shared)
         IN { h \o t : h \in here,
                       t \in newTables(oldNodes, newNodes, shared, o, i + 1) }

compareDSL(old, new, shared) ==
    LET oldNodes == MapByName(old.Nodes)
        newNodes == MapByName(new.Nodes)
        dropped(n) ==
            IF n \notin DOMAIN newNodes
            THEN << Migration("DROP_TABLE", oldNodes[n].Table, "", "", "") >>
            ELSE << >>
    IN UNION { { c \o Flat([i \in DOMAIN d |-> dropped(d[i])]) :
                 c \in newTables(oldNodes, newNodes, shared, o, 1),
                 d \in RangeOrders(DOMAIN oldNodes) } :
               o \in RangeOrders(DOMAIN newNodes) }

\* generateSQL: the statement of one operation in one schema, << >> where
\* nothing is left to execute (generateCreateTable runs the CREATE TABLE of
\* the node its pointer designates itself, drops its error and returns "")
generateSQL(schema, migration) ==
    IF migration.Type = "CREATE_TABLE" THEN << >>
    ELSE IF migration.Type \in {"DROP_TABLE", "ADD_COLUMN", "DROP_COLUMN",
                                "ALTER_COLUMN", "CREATE_INDEX", "DROP_INDEX"}
    THEN << migration.Type, schema, migration.Table, migration.Column,
            migration.IndexName, migration.Ref >>
    ELSE << >>

\* --- the requests explored
PropsAB  == << PropertyDefinition("a", "string", FALSE),
               PropertyDefinition("b", "string", FALSE) >>
PropsBC  == << PropertyDefinition("b", "string", FALSE),
               PropertyDefinition("c", "string", FALSE) >>
PropsABi == << PropertyDefinition("a", "string", FALSE),
               PropertyDefinition("b", "integer", FALSE) >>
PropsB   == << PropertyDefinition("b", "string", FALSE) >>
\* PropsAB with a made required: no column operation tells them apart
PropsABr == << PropertyDefinition("a", "string", TRUE),
               PropertyDefinition("b", "string", FALSE) >>

MigrateTickets ==
    { NodeDefinition("Ticket", "tickets", p, x) :
        p \in {PropsAB, PropsBC, PropsABi, PropsB, PropsABr},
        x \in { << >>, << IndexDefinition("idx_b") >> } }

MigrateComment == NodeDefinition("Comment", "comments", PropsAB, << >>)

MigrateDSLs ==
    { DSLDefinition(<< t >>) : t \in MigrateTickets }
        \cup { DSLDefinition(<< t, MigrateComment >>) : t \in MigrateTickets }
        \cup { DSLDefinition(<< MigrateComment >>) }

NoDSL == DSLDefinition(<< >>)

\* a dal.schema.migrate request for one service: `known` tells whether the
\* registry holds a DSL for it (`old`), `shared` whether the build shares a
\* range variable between iterations, `tenants` is the ListTenants result
MigrateInit ==
    /\ cfg \in { c \in Configs : c.engine = "svc" }
    /\ store = [s \in Schemas |-> {}]
    /\ nextId = 1
    /\ opsLeft = MaxOps
    /\ proc = [p \in Procs |-> IdleProc]
    /\ owner = [i \in Ids |-> "none"]
    /\ gone = {}
    /\ job = NoJob
    /\ hk = NoHook /\ rel = NoRel /\ prov = NoProv
    /\ \E known \in BOOLEAN, shared \in BOOLEAN :
         mig \in { [pc |-> "request", known |-> known, shared |-> shared,
                    registry |-> old, new |-> new,
                    creating |-> FALSE, migrations |-> << >>,
                    tenants |-> ts, t |-> 1, k |-> 1,
                    ran |-> [x \in Tenants |-> << >>], err |-> NoError] :
                   old \in IF known THEN MigrateDSLs ELSE {NoDSL},
                   new \in MigrateDSLs,
                   ts \in RangeOrders(Tenants) }

\* Migrator.Migrate up to its tenant list: an unregistered service is
\* registered and goes to createNewService, a registered one is compared
Migrate ==
    /\ mig.pc = "request"
    /\ IF ~mig.known
       THEN mig' = [mig EXCEPT !.pc = "list", !.creating = TRUE,
                               !.registry = mig.new, !.known = TRUE]
       ELSE \E ms \in compareDSL(mig.registry, mig.new, mig.shared) :
              mig' = [mig EXCEPT !.migrations = ms,
                                 !.pc = IF ms = << >> THEN "done" ELSE "list"]
    /\ UNCHANGED <<crud, job, hk, rel, prov>>

\* listTenants: the tenant schemas, or the error of the catalogue query
listTenants ==
    /\ mig.pc = "list"
    /\ \E ok \in BOOLEAN :
         mig' = IF ~ok
                THEN [mig EXCEPT !.pc = "done", !.err = << "list tenants failed" >>]
                ELSE [mig EXCEPT !.pc = IF mig.tenants = << >> 
                                        THEN (IF mig.creating THEN "done" ELSE "register")
                                        ELSE (IF mig.creating THEN "create" ELSE "apply")]
    /\ UNCHANGED <<crud, job, hk, rel, prov>>

\* one tenant of createNewService: CreateServiceSchema creates every table of
\* the DSL; its first error ends the request
CreateServiceSchema ==
    /\ mig.pc = "create"
    /\ LET tenant == mig.tenants[mig.t]
           tables == [i \in DOMAIN mig.new.Nodes |->
                        Migration("CREATE_TABLE", mig.new.Nodes[i].Table, "", "",
                                  mig.new.Nodes[i].Name)]
       IN \E ok \in BOOLEAN :
            mig' = IF ~ok
                   THEN [mig EXCEPT !.pc = "done",
                                    !.err = << "failed to create schema for tenant",
                                               tenant >>]
                   ELSE [mig EXCEPT !.ran[tenant] = tables,
                                    !.t = @ + 1,
                                    !.pc = IF mig.t = Len(mig.tenants)
                                           THEN "done" ELSE "create"]
    /\ UNCHANGED <<crud, job, hk, rel, prov>>

\* one operation of applyMigrations in the schema of the tenant in turn; an
\* Exec error returns from applyMigrations, and Migrate returns on it
applyMigrations ==
    /\ mig.pc = "apply"
    /\ LET tenant == mig.tenants[mig.t]
           migration == mig.migrations[mig.k]
           sql == generateSQL(SchemaName(tenant), migration)
           next == IF mig.k < Len(mig.migrations)
                   THEN [mig EXCEPT !.k = @ + 1,
                                    !.ran[tenant] = Append(@, migration)]
                   ELSE [mig EXCEPT !.k = 1, !.t = @ + 1,
                                    !.ran[tenant] = Append(@, migration),
                                    !.pc = IF mig.t = Len(mig.tenants)
                                           THEN "register" ELSE "apply"]
       IN \E ok \in BOOLEAN :
            mig' = IF sql # << >> /\ ~ok
                   THEN [mig EXCEPT !.pc = "done",
                                    !.err = << "migration failed for tenant",
                                               tenant >>]
                   ELSE next
    /\ UNCHANGED <<crud, job, hk, rel, prov>>

\* the registry takes the new DSL once every tenant is migrated
RegisterService ==
    /\ mig.pc = "register"
    /\ mig' = [mig EXCEPT !.registry = mig.new, !.pc = "done"]
    /\ UNCHANGED <<crud, job, hk, rel, prov>>

MigrateNext ==
    \/ Migrate
    \/ listTenants
    \/ CreateServiceSchema
    \/ applyMigrations
    \/ RegisterService

MigrateSpec == MigrateInit /\ [][MigrateNext]_vars

\* ============================================================ hook stages of an update
\* (DAL.Update around its statement, for any pre_update and post_update
\* declaration of the node)

\* triggers that fire whether or not the field changed
RECURSIVE triggerCallsAlways(_, _, _, _)
triggerCallsAlways(triggers, old, new, failing) ==
    IF triggers = << >> THEN [calls |-> << >>, err |-> NoError]
    ELSE LET t    == Head(triggers)
             call == << "trigger", t.Action, t.OnFieldChange >>
             rest == triggerCallsAlways(Tail(triggers), old, new, failing)
         IN IF t.Action \in triggerHandlers
              THEN IF t.Action \in failing
                     THEN [calls |-> << call >>,
                           err |-> << "trigger failed", t.Action >>]
                     ELSE [calls |-> << call >> \o rest.calls, err |-> rest.err]
              ELSE rest

\* the callbacks a run of triggers invokes, in order, and the error that
\* ended it; `failing` are the callbacks that return an error
RECURSIVE triggerCalls(_, _, _, _)
triggerCalls(triggers, old, new, failing) ==
    IF triggers = << >> THEN [calls |-> << >>, err |-> NoError]
    ELSE LET t    == Head(triggers)
             call == << "trigger", t.Action, t.OnFieldChange >>
             rest == triggerCalls(Tail(triggers), old, new, failing)
         IN IF fieldChanged(old, new, t.OnFieldChange) /\ t.Action \in triggerHandlers
              THEN IF t.Action \in failing
                     THEN [calls |-> << call >>,
                           err |-> << "trigger failed", t.Action >>]
                     ELSE [calls |-> << call >> \o rest.calls, err |-> rest.err]
              ELSE rest

RECURSIVE actionCalls(_, _)
actionCalls(actions, failing) ==
    IF actions = << >> THEN [calls |-> << >>, err |-> NoError]
    ELSE LET call == << "action", Head(actions), "" >>
             rest == actionCalls(Tail(actions), failing)
         IN IF Head(actions) \in actionHandlers
              THEN IF Head(actions) \in failing
                     THEN [calls |-> << call >>,
                           err |-> << "action failed", Head(actions) >>]
                     ELSE [calls |-> << call >> \o rest.calls, err |-> rest.err]
              ELSE rest

\* Executor.PostUpdate of a node whose post_update slot is `slot`: the
\* triggers, then the actions
PostUpdateOf(slot, old, new, failing) ==
    IF ~slot.Enabled THEN [calls |-> << >>, err |-> NoError]
    ELSE LET t == triggerCalls(slot.Triggers, old, new, failing)
             a == actionCalls(slot.Actions, failing)
         IN IF t.err # NoError THEN t
            ELSE [calls |-> t.calls \o a.calls, err |-> a.err]

\* --- the declarations, rows and payloads explored
HookValidations == {
    << >>,
    << [Field |-> "title", Rule |-> "required", Message |-> RequiredMessage] >>,
    << [Field |-> "title", Rule |-> "min_length", Message |-> "title too short",
        Value |-> 1] >>,
    << [Field |-> "status", Rule |-> "in", Message |-> "unknown status",
        Value |-> {"open", "closed"}] >> }

HookTriggers == {
    << >>,
    Hooks.PostUpdate.Triggers,
    << [OnFieldChange |-> "title",  Action |-> "notify_status_change"],
       [OnFieldChange |-> "status", Action |-> "notify_status_change"] >> }

HookPayloads ==
    UpdatePayloads \cup { [title |-> ""], [title |-> "y", status |-> "open"] }

\* a stored row of tenant t1
HookRow(c, title, status) ==
    [col \in Columns(c) |->
        CASE col \in {"id", "version"} -> 1
          [] col = "tenant_id"  -> "t1"
          [] col = "title"      -> title
          [] col = "status"     -> status
          [] col = "deleted_at" -> Null
          [] OTHER              -> Now]

HookInit ==
    /\ cfg \in { c \in Configs : c.engine = "sdk" }
    /\ store = [s \in Schemas |-> {}]
    /\ nextId = 1
    /\ opsLeft = MaxOps
    /\ proc = [p \in Procs |-> IdleProc]
    /\ owner = [i \in Ids |-> "none"]
    /\ gone = {}
    /\ job = NoJob /\ mig = NoMig /\ rel = NoRel /\ prov = NoProv
    /\ hk \in { [pc |-> "ready",
                 pre  |-> [Hooks.PreUpdate EXCEPT !.Validations = vs],
                 post |-> [Hooks.PostUpdate EXCEPT !.Triggers = ts],
                 old |-> HookRow(cfg, title, status), payload |-> d,
                 data |-> NoEntity, out |-> NoEntity,
                 calls |-> << >>, err |-> NoError] :
               vs \in HookValidations, ts \in HookTriggers,
               title \in {"x", ""}, status \in {"open", "closed"},
               d \in HookPayloads }

\* DAL.Update from the row it read to the row its statement returns
HookPreUpdate ==
    /\ hk.pc = "ready"
    /\ LET data == Overlay(hk.payload, [updated_at |-> Now])
           e    == PreUpdateOf(hk.pre, hk.old, data)
           stmt == BuildUpdate(cfg, SchemaName("t1"), hk.old.id, data)
       IN hk' = IF e # NoError
                  THEN [hk EXCEPT !.pc = "done", !.data = data,
                                  !.err = << "pre-update hook failed" >> \o e]
                  ELSE [hk EXCEPT !.pc = "updated", !.data = data,
                                  !.out = Overlay(hk.old, stmt.set)]
    /\ UNCHANGED <<crud, job, mig, rel, prov>>

\* DAL.Update after its statement: the post-update hook
HookPostUpdate ==
    /\ hk.pc = "updated"
    /\ \E failing \in SUBSET (SlotCallbacks(hk.post) \cup TriggerCallbacks(hk.post)) :
         LET r == PostUpdateOf(hk.post, hk.old, hk.out, failing)
         IN hk' = [hk EXCEPT !.pc = "done", !.calls = r.calls,
                             !.err = IF r.err # NoError
                                       THEN << "post-update hook failed" >> \o r.err
                                       ELSE NoError]
    /\ UNCHANGED <<crud, job, mig, rel, prov>>

HookNext ==
    \/ HookPreUpdate
    \/ HookPostUpdate

HookSpec == HookInit /\ [][HookNext]_vars

\* ============================================================ relation resolution
\* (what Execute does with query.Relations once the rows are scanned)

\* node.Relations: the customer lives in another service, the assignee in
\* this one
Relation(name, targetService, targetNode, localField, targetField) ==
    [Name |-> name, TargetService |-> targetService, TargetNode |-> targetNode,
     LocalField |-> localField, TargetField |-> targetField]

NodeRelations ==
    << Relation("customer", "customer", "Customer", "customer_id", "id"),
       Relation("assignee", ServiceName, "User", "assignee_id", "id") >>

\* rel.Name + "_pending"
PendingKey(name) ==
    CASE name = "customer" -> "customer_pending"
      [] name = "assignee" -> "assignee_pending"

\* the declaration of the requested name: the first of that name, or none
FindRelation(relations, name) ==
    LET found == { i \in DOMAIN relations : relations[i].Name = name }
    IN IF found = {} THEN << >>
       ELSE << relations[CHOOSE i \in found : \A j \in found : i <= j] >>

\* one declared relation of DAL.fetchRelations: `targets` are the rows of the
\* target table, fetchOk whether the lookup statement succeeds
fetchRelation(entities, r, targets, fetchOk) ==
    LET ids == { entities[i][r.LocalField] :
                   i \in { j \in DOMAIN entities :
                             /\ r.LocalField \in DOMAIN entities[j]
                             /\ entities[j][r.LocalField] # Null } }
    IN IF ids = {} THEN [entities |-> entities, err |-> NoError]
       ELSE IF r.TargetService = ServiceName
         THEN IF ~fetchOk THEN [entities |-> << >>, err |-> << "query failed" >>]
              ELSE LET related == { t \in targets : t[r.TargetField] \in ids }
                   IN [entities |->
                         [i \in DOMAIN entities |->
                            IF \E t \in related :
                                  t[r.TargetField] = Val(entities[i], r.LocalField)
                              THEN Overlay(entities[i],
                                     [k \in {r.Name} |->
                                        CHOOSE t \in related :
                                          t[r.TargetField]
                                             = Val(entities[i], r.LocalField)])
                              ELSE entities[i]],
                       err |-> NoError]
         ELSE [entities |-> [i \in DOMAIN entities |->
                               Overlay(entities[i],
                                       [k \in {PendingKey(r.Name)} |-> TRUE])],
               err |-> NoError]

\* DAL.fetchRelations: the requested names in order; an undeclared name is
\* skipped, a failed lookup ends the query
RECURSIVE fetchRelations(_, _, _, _)
fetchRelations(entities, requested, targets, fetchOk) ==
    IF requested = << >> THEN [entities |-> entities, err |-> NoError]
    ELSE LET d == FindRelation(NodeRelations, Head(requested))
         IN IF d = << >>
              THEN fetchRelations(entities, Tail(requested), targets, fetchOk)
              ELSE LET one == fetchRelation(entities, d[1], targets, fetchOk)
                   IN IF one.err # NoError THEN one
                      ELSE fetchRelations(one.entities, Tail(requested),
                                          targets, fetchOk)

\* QueryExecutor.fetchRelations returns the rows as they are
SvcFetchRelations(results, relations) == results

\* --- the result sets and requests explored
RelationRows ==
    { [id |-> i, customer_id |-> c, assignee_id |-> a] :
        i \in {1}, c \in {Null, "c1"}, a \in {Null, "u1"} }

RelationResults ==
    { << >> } \cup { << r >> : r \in RelationRows }
              \cup { << r, [s EXCEPT !.id = 2] >> : r \in RelationRows, s \in RelationRows }

RelationRequests ==
    { << "customer" >>, << "assignee" >>, << "assignee", "customer" >>,
      << "bogus", "customer" >> }

RelationTargets == { {}, { [id |-> "u1", name |-> "ann"] } }

RelationInit ==
    /\ cfg \in Configs
    /\ store = [s \in Schemas |-> {}]
    /\ nextId = 1
    /\ opsLeft = MaxOps
    /\ proc = [p \in Procs |-> IdleProc]
    /\ owner = [i \in Ids |-> "none"]
    /\ gone = {}
    /\ job = NoJob /\ mig = NoMig /\ hk = NoHook /\ prov = NoProv
    /\ rel \in { [pc |-> "scanned", entities |-> es, relations |-> rq,
                  targets |-> ts, out |-> << >>, err |-> NoError] :
                 es \in RelationResults, rq \in RelationRequests,
                 ts \in RelationTargets }

\* the tail of DAL.Execute
DALFetchRelations ==
    /\ cfg.engine = "sdk"
    /\ rel.pc = "scanned"
    /\ \E fetchOk \in BOOLEAN :
         LET r == fetchRelations(rel.entities, rel.relations, rel.targets, fetchOk)
         IN rel' = [rel EXCEPT !.pc = "done", !.out = r.entities, !.err = r.err]
    /\ UNCHANGED <<crud, job, mig, hk, prov>>

\* the tail of QueryExecutor.Execute
ExecutorFetchRelations ==
    /\ cfg.engine = "svc"
    /\ rel.pc = "scanned"
    /\ rel' = [rel EXCEPT !.pc = "done",
                          !.out = SvcFetchRelations(rel.entities, rel.relations)]
    /\ UNCHANGED <<crud, job, mig, hk, prov>>

RelationNext ==
    \/ DALFetchRelations
    \/ ExecutorFetchRelations

RelationSpec == RelationInit /\ [][RelationNext]_vars

\* ============================================================ tenant provisioning
\* (dal-service: handleTenantCreate with the SchemaManager; SDK: schema.Manager)

DALConfig(c) == [SoftDelete |-> c.SoftDelete, OptimisticLock |-> c.OptimisticLock]

\* a node as the provisioners read it: its table, the names of its DSL
\* properties in order, and its dal block
TableNode(name, table, props, dal) ==
    [Name |-> name, Table |-> table, Properties |-> props, DAL |-> dal]

\* SchemaManager.createTable: the DSL properties, then created_by and
\* updated_by in the order `order` of the systemCols map, then the
\* soft-delete and version columns the dal block asks for; none is added
\* twice
createTable(node, order) ==
    LET existingCols == { node.Properties[i] : i \in DOMAIN node.Properties }
        add(cols)    == SelectSeq(cols, LAMBDA col : col \notin existingCols)
    IN node.Properties
         \o add(order)
         \o (IF node.DAL.SoftDelete THEN add(<< "deleted_at", "deleted_by" >>)
             ELSE << >>)
         \o (IF node.DAL.OptimisticLock THEN add(<< "version" >>) ELSE << >>)

\* Manager.generateTableDDL: the DSL properties, then version when the dal
\* block asks for optimistic locking
generateTableDDL(node) ==
    node.Properties \o (IF node.DAL.OptimisticLock THEN << "version" >> ELSE << >>)

\* CREATE TABLE rejects a column list that names a column twice
DuplicateColumn(cols) ==
    \E i, j \in DOMAIN cols : i < j /\ cols[i] = cols[j]

Table(schema, node, cols) == [schema |-> schema, table |-> node.Table, columns |-> cols]

\* the node loop of CreateServiceSchema and of Manager.CreateTenantSchema:
\* `ddl[i]` is the column list of node i; stop = 0 when every statement
\* succeeds, otherwise the node at which the first error returns, on its
\* index statements when atIndex holds and on its CREATE TABLE otherwise
CreateTables(schema, nodes, ddl, stop, atIndex) ==
    LET made == { i \in DOMAIN nodes : stop = 0 \/ i < stop \/ (i = stop /\ atIndex) }
    IN [tables |-> { Table(schema, nodes[i], ddl[i]) : i \in made },
        err |-> IF stop = 0 THEN NoError
                ELSE IF atIndex THEN << "failed to create indexes", nodes[stop].Table >>
                ELSE << "failed to create table", nodes[stop].Table >>]

\* the outcomes the database allows: a table whose column list repeats a
\* name is never made
Feasible(nodes, ddl, stop, atIndex) ==
    \A i \in DOMAIN nodes :
        (stop = 0 \/ i < stop \/ (i = stop /\ atIndex)) => ~DuplicateColumn(ddl[i])

\* --- the registry contents explored
\* the ticket node, with its dal block from cfg; `declared` says whether the
\* DSL lists the soft-delete and version columns among its properties
TicketNode(c, declared) ==
    TableNode(NodeName, NodeTable,
              << "id", "tenant_id", "title", "status", "created_at", "updated_at" >>
                \o (IF declared /\ c.SoftDelete THEN << "deleted_at" >> ELSE << >>)
                \o (IF declared /\ c.OptimisticLock THEN << "version" >> ELSE << >>),
              DALConfig(c))

AssetNode ==
    TableNode("Asset", "assets", << "id", "tenant_id", "name" >>,
              [SoftDelete |-> FALSE, OptimisticLock |-> FALSE])

Service(name, nodes) == [Name |-> name, Nodes |-> nodes]

ProvRegistries(c) ==
    UNION { { << Service(ServiceName, << TicketNode(c, d) >>) >>,
              << Service(ServiceName, << TicketNode(c, d), AssetNode >>) >>,
              << Service(ServiceName, << TicketNode(c, d) >>),
                 Service("asset", << AssetNode >>) >>,
              << Service("asset", << AssetNode >>),
                 Service(ServiceName, << TicketNode(c, d) >>) >> } :
            d \in BOOLEAN }

\* a tenant-create request: for the dal-service `services` is the registry in
\* ListServices order, for the SDK the one graph of the embedding service
ProvInit ==
    /\ cfg \in Configs
    /\ store = [s \in Schemas |-> {}]
    /\ nextId = 1
    /\ opsLeft = MaxOps
    /\ proc = [p \in Procs |-> IdleProc]
    /\ owner = [i \in Ids |-> "none"]
    /\ gone = {}
    /\ job = NoJob /\ mig = NoMig /\ hk = NoHook /\ rel = NoRel
    /\ prov \in { [pc |-> "request", tenant |-> t, services |-> r, s |-> 1,
                   schemas |-> {}, tables |-> {}, log |-> << >>,
                   reply |-> "none", err |-> NoError] :
                  t \in Tenants,
                  r \in { x \in ProvRegistries(cfg) :
                            cfg.engine = "sdk" => Len(x) = 1 } }

\* handleTenantCreate up to its service loop: CreateTenantSchema makes the
\* schema and its audit table; its error is the reply
handleTenantCreate ==
    /\ cfg.engine = "svc"
    /\ prov.pc = "request"
    /\ \E ok \in BOOLEAN :
         prov' = IF ~ok
                   THEN [prov EXCEPT !.pc = "done", !.reply = "error",
                                     !.err = << "failed to create schema" >>]
                   ELSE [prov EXCEPT !.pc = "services",
                                     !.schemas = @ \cup {SchemaName(prov.tenant)}]
    /\ UNCHANGED <<crud, job, mig, hk, rel>>

\* one registered service of the loop: CreateServiceSchema, whose error is
\* logged, and the next service follows
CreateServiceTables ==
    /\ cfg.engine = "svc"
    /\ prov.pc = "services" /\ prov.s <= Len(prov.services)
    /\ LET nodes == prov.services[prov.s].Nodes
       IN \E stop \in 0 .. Len(nodes), atIndex \in BOOLEAN,
             order \in RangeOrders({"created_by", "updated_by"}) :
            LET ddl == [i \in DOMAIN nodes |-> createTable(nodes[i], order)]
                r   == CreateTables(SchemaName(prov.tenant), nodes, ddl, stop, atIndex)
            IN /\ stop = 0 => ~atIndex
               /\ Feasible(nodes, ddl, stop, atIndex)
               /\ prov' = [prov EXCEPT
                             !.s = @ + 1,
                             !.tables = @ \cup r.tables,
                             !.log = IF r.err # NoError
                                       THEN Append(@, << prov.services[prov.s].Name >>
                                                       \o r.err)
                                       ELSE @]
    /\ UNCHANGED <<crud, job, mig, hk, rel>>

\* replySuccess after the loop
TenantCreateReply ==
    /\ cfg.engine = "svc"
    /\ prov.pc = "services" /\ prov.s > Len(prov.services)
    /\ prov' = [prov EXCEPT !.pc = "done", !.reply = "success"]
    /\ UNCHANGED <<crud, job, mig, hk, rel>>

\* Manager.CreateTenantSchema of the SDK: the schema, then every node of the
\* graph; the first error is returned
ManagerCreateTenantSchema ==
    /\ cfg.engine = "sdk"
    /\ prov.pc = "request"
    /\ LET nodes == prov.services[1].Nodes
           ddl   == [i \in DOMAIN nodes |-> generateTableDDL(nodes[i])]
       IN \E ok \in BOOLEAN, stop \in 0 .. Len(nodes), atIndex \in BOOLEAN :
            LET r == CreateTables(SchemaName(prov.tenant), nodes, ddl, stop, atIndex)
            IN /\ stop = 0 => ~atIndex
               /\ Feasible(nodes, ddl, stop, atIndex)
               /\ prov' = IF ~ok
                            THEN [prov EXCEPT !.pc = "done", !.reply = "error",
                                              !.err = << "failed to create schema" >>]
                            ELSE [prov EXCEPT
                                    !.pc = "done",
                                    !.schemas = @ \cup {SchemaName(prov.tenant)},
                                    !.tables = @ \cup r.tables,
                                    !.err = r.err,
                                    !.reply = IF r.err = NoError THEN "success"
                                              ELSE "error"]
    /\ UNCHANGED <<crud, job, mig, hk, rel>>

ProvNext ==
    \/ handleTenantCreate
    \/ CreateServiceTables
    \/ TenantCreateReply
    \/ ManagerCreateTenantSchema

ProvSpec == ProvInit /\ [][ProvNext]_vars






\* ============================================================ properties
Writes == {"create", "update", "delete"}

\* goroutine p takes a step (history marks on other slots do not count)
Acts(p) ==
    /\ proc'[p].pc # "idle"
    /\ [proc'[p] EXCEPT !.overlap = FALSE] # [proc[p] EXCEPT !.overlap = FALSE]

Succeeded(pr) == pr.pc = "done" /\ pr.err = NoError

\* ------------------------------------------------------------ C1
\* every row an operation holds or returns was created under its own tenant
ReturnsOwnRows ==
    \A p \in Procs :
        /\ "id" \in DOMAIN proc[p].out => owner[proc[p].out.id] = proc[p].tenant
        /\ "id" \in DOMAIN proc[p].old => owner[proc[p].old.id] = proc[p].tenant
        /\ \A r \in proc[p].rows : owner[r.id] = proc[p].tenant

\* a row changes or disappears only in a step of an operation of its tenant
ModifiesOwnRows ==
    \A s \in Schemas : \A r \in store[s] :
        r \notin store'[s] =>
            \E p \in Procs : Acts(p) /\ proc'[p].tenant = owner[r.id]

\* C1: tenant isolation - an operation invoked for one tenant never returns
\* and never modifies a row created under another tenant, whatever filter or
\* payload the caller supplies.
C1_TenantIsolation == []ReturnsOwnRows /\ [][ModifiesOwnRows]_vars

\* a query in t2 whose filter matches a live t1 row came back empty
C1_Witness ==
    \E p \in Procs :
        /\ proc[p].op = "query" /\ proc[p].tenant = "t2"
        /\ Succeeded(proc[p])
        /\ proc[p].data.where = << Leaf("tenant_id", "eq", "t1") >>
        /\ proc[p].rows = {}
        /\ \E r \in store[SchemaName("t1")] :
              /\ r.tenant_id = "t1" /\ owner[r.id] = "t1"
              /\ cfg.SoftDelete => r.deleted_at = Null

\* ------------------------------------------------------------ C2
\* goroutine p executes the UPDATE statement of an Update it began earlier
WritesUpdate(p) ==
    /\ proc[p].op = "update" /\ proc[p].pc = "write"
    /\ proc'[p].pc # "write"

\* the row an in-flight update addresses, as it is stored now
StoredRow(st, pr) ==
    OneRow({ r \in st[SchemaName(pr.tenant)] : r.id = pr.id })

OptimisticConflict == << "optimistic lock conflict" >>

\* the statement names only columns of the table
WellFormed(pr) == DOMAIN pr.data \subseteq Columns(cfg)

\* an update that read version N either finds N still stored, succeeds and
\* leaves N+1 stored, or finds another version, fails with the conflict
\* error and leaves the store as it was
LockStep(p) ==
    LET N   == proc[p].old.version
        cur == StoredRow(store, proc[p])
    IN IF ~IsNil(cur) /\ cur.version = N
         THEN /\ proc'[p].pc = "post"
              /\ StoredRow(store', proc[p]).version = N + 1
         ELSE /\ proc'[p].pc = "done"
              /\ proc'[p].err = OptimisticConflict
              /\ store' = store

\* C2: optimistic-lock invariant - with optimistic locking enabled, an update
\* of an entity read at version N that succeeds leaves version N+1 stored,
\* and an update based on a stale version fails with the conflict error and
\* leaves the store unchanged.
C2_OptimisticLock ==
    [][\A p \in Procs :
          cfg.OptimisticLock /\ WritesUpdate(p) /\ WellFormed(proc[p])
              => LockStep(p)]_vars

\* the same statement for the dal-service engine alone
C2_OptimisticLockSvc ==
    [][\A p \in Procs :
          cfg.engine = "svc" /\ cfg.OptimisticLock /\ WritesUpdate(p)
            /\ WellFormed(proc[p])
              => LockStep(p)]_vars

\* ------------------------------------------------------------ C3
\* C3: no lost update - with optimistic locking enabled, when two updates of
\* one entity both read the row before either writes and one of them has
\* written, the other fails with the conflict error and writes nothing.
C3_NoLostUpdate ==
    [][\A p \in Procs :
          cfg.OptimisticLock /\ WritesUpdate(p) /\ proc[p].overlap
            /\ WellFormed(proc[p])
              => /\ proc'[p].pc = "done"
                 /\ proc'[p].err = OptimisticConflict
                 /\ store' = store]_vars

\* the same statement for the dal-service engine alone
C3_NoLostUpdateSvc ==
    [][\A p \in Procs :
          cfg.engine = "svc" /\ cfg.OptimisticLock /\ WritesUpdate(p)
            /\ proc[p].overlap /\ WellFormed(proc[p])
              => /\ proc'[p].pc = "done"
                 /\ proc'[p].err = OptimisticConflict
                 /\ store' = store]_vars

\* ------------------------------------------------------------ C4
\* rows a query without caller filter returns to the tenant
Listed(tenantID) ==
    IF cfg.engine = "sdk"
      THEN ExecuteRows(cfg, store, tenantID, << >>)
      ELSE SvcRows(cfg, store, tenantID, buildWhereClause(<< >>, tenantID))

\* the deleted entity is invisible to reads and still stored, marked deleted
SoftDeleted(id) ==
    /\ IsNil(GetByID(cfg, store, owner[id], id))
    /\ \A r \in Listed(owner[id]) : r.id # id
    /\ \E r \in store[SchemaName(owner[id])] : r.id = id /\ r.deleted_at # Null

\* C4: soft-delete invariant - once an entity with soft delete enabled has
\* been deleted, every later read by id finds nothing and every later query
\* excludes it, while its row is still stored with deleted_at set.
C4_SoftDelete ==
    cfg.SoftDelete => \A id \in gone : SoftDeleted(id)

\* ------------------------------------------------------------ C5
\* a row with this id is stored under some tenant
Stored(id) == \E s \in Schemas : \E r \in store[s] : r.id = id

\* a Create of the hook-running engine whose payload carries no title
CreatesUntitled(pr) ==
    /\ cfg.engine = "sdk" /\ pr.op = "create"
    /\ Val(pr.data, "title") \in {Null, ""}

\* C5: a Create whose payload fails the pre-create `required` validation on
\* title aborts with the validation's error before the INSERT: no row is
\* stored, no post-create hook has run and no event is published.
C5_ValidationAborts ==
    \A p \in Procs :
        CreatesUntitled(proc[p]) =>
            /\ proc[p].pc = "done"
            /\ proc[p].err = << "pre-create hook failed", RequiredMessage >>
            /\ IsNil(proc[p].out)
            /\ proc[p].log = << >>
            /\ proc[p].pubs = << >>
            /\ ~Stored(proc[p].id)

\* a Create without title has been refused while another row is stored
C5_Witness ==
    \E p \in Procs :
        /\ CreatesUntitled(proc[p])
        /\ proc[p].pc = "done" /\ proc[p].err # NoError
        /\ \E i \in Ids : Stored(i)

\* ------------------------------------------------------------ C6
\* goroutine p takes the next request in this step
Begins(p) == CanStart(p) /\ opsLeft' = opsLeft - 1

RuleRejected == << "pre-update hook failed", RuleMessage >>

\* C6: with the pre-update rule "reject when old.status == 'closed'", every
\* Update that starts on an entity whose stored status is closed fails with
\* the rule's message and leaves the store unchanged.
C6_ClosedRejected ==
    [][\A p \in Procs :
          (/\ cfg.engine = "sdk" /\ Begins(p) /\ proc'[p].op = "update"
           /\ StringOf(GetByID(cfg, store, proc'[p].tenant, proc'[p].id),
                       "status") = "closed")
              => /\ proc'[p].pc = "done"
                 /\ proc'[p].err = RuleRejected
                 /\ store' = store]_vars

\* an Update has been rejected by the rule and the row is still closed
C6_Witness ==
    \E p \in Procs :
        /\ cfg.engine = "sdk" /\ proc[p].op = "update"
        /\ proc[p].pc = "done" /\ proc[p].err = RuleRejected
        /\ StringOf(GetByID(cfg, store, proc[p].tenant, proc[p].id),
                    "status") = "closed"

\* ------------------------------------------------------------ C7
PostHookErrors ==
    {"post-create hook failed", "post-update hook failed", "post-delete hook failed"}

\* the operation of goroutine p ended on a post-hook error
PostHookFailed(pr) ==
    /\ pr.op \in Writes /\ pr.pc = "done"
    /\ pr.err # NoError /\ pr.err[1] \in PostHookErrors

\* C7: when a post-create, post-update or post-delete action or trigger
\* fails after the store write, the operation returns that failure and the
\* store keeps the write exactly as it was made: nothing is rolled back.
C7_NoRollback ==
    [][\A p \in Procs :
          (proc[p].pc = "post" /\ PostHookFailed(proc'[p]))
              => /\ store' = store
                 /\ IsNil(proc'[p].out)
                 /\ proc'[p].pubs = << >>]_vars

\* a Create failed in its post-create action and its row is stored
C7_Witness ==
    \E p \in Procs :
        /\ PostHookFailed(proc[p]) /\ proc[p].op = "create"
        /\ proc[p].err = << "post-create hook failed", "action failed",
                            "notify_customer" >>
        /\ Stored(proc[p].id)

\* ------------------------------------------------------------ C8
\* C8: when publishing the event fails after the write, the Create, Update or
\* Delete still returns success (Create and Update with the stored row) and
\* the store is left as written.
C8_PublishFailureIgnored ==
    [][\A p \in Procs :
          (~proc[p].pubErr /\ proc'[p].pubErr)
              => /\ store' = store
                 /\ Succeeded(proc'[p])
                 /\ proc'[p].out = proc[p].out
                 /\ proc[p].op \in {"create", "update"} => ~IsNil(proc'[p].out)]_vars

\* an Update returned its row although its publish failed
C8_Witness ==
    \E p \in Procs :
        /\ proc[p].op = "update" /\ proc[p].pubErr
        /\ Succeeded(proc[p])
        /\ \E r \in store[SchemaName(proc[p].tenant)] : r = proc[p].out

\* ------------------------------------------------------------ C9
EventOf(op) ==
    CASE op = "create" -> "created"
      [] op = "update" -> "updated"
      [] op = "delete" -> "deleted"

StatementOf(op) ==
    CASE op = "create" -> "insert"
      [] op = "update" -> "update"
      [] op = "delete" -> "delete"

\* the stages of a successful operation, in order
StagesOf(op) ==
    IF cfg.engine = "sdk" THEN << StatementOf(op), "post", "publish" >>
    ELSE << StatementOf(op), "publish" >>

\* with a publisher, a successful write operation has published once, last,
\* on <service, tenant, entity, event>; before its end and when it fails at
\* or before the store write it has published nothing
PublishesOnce(entity) ==
    \A p \in Procs :
        (cfg.eventBus /\ proc[p].op \in Writes) =>
            /\ Succeeded(proc[p]) =>
                  /\ proc[p].pubs = << Subject(ServiceName, proc[p].tenant, entity,
                                               EventOf(proc[p].op)) >>
                  /\ proc[p].log = StagesOf(proc[p].op)
            /\ proc[p].pc # "done" => proc[p].pubs = << >>
            /\ (proc[p].pc = "done" /\ proc[p].err # NoError /\ proc[p].log = << >>)
                  => proc[p].pubs = << >>

\* C9 as stated: with an event publisher configured, every Create, Update or
\* Delete that returns success has published exactly once, after the store
\* write and the post hooks, on {service}.{tenantID}.{entityTable}.{event};
\* an operation failing before or at the store write publishes nothing.
C9_SubjectIsTable == PublishesOnce(NodeTable)

\* the third token of the subject, per engine
EntityToken == IF cfg.engine = "sdk" THEN NodeTable ELSE NodeName

\* C9: with an event publisher configured, every Create, Update or Delete
\* that returns success has published exactly once, after the store write and
\* the post hooks, on {service}.{tenantID}.{entity}.{event}, where {entity}
\* is the node's table in the SDK DAL and the entity name of the request
\* subject in the dal-service; an operation failing before or at the store
\* write publishes nothing.
C9_PublishesOnce == PublishesOnce(EntityToken)

\* a Create of the dal-service has published on the entity name
C9_Witness ==
    \E p \in Procs :
        /\ cfg.engine = "svc" /\ proc[p].op = "create"
        /\ Succeeded(proc[p])
        /\ proc[p].pubs = << Subject(ServiceName, proc[p].tenant, NodeName,
                                     "created") >>

\* ------------------------------------------------------------ C10
SystemFieldNames == {"id", "tenant_id", "created_at", "updated_at", "version"}

\* the record read back equals the request on the caller's fields and has
\* the system fields populated
RoundTrip(pr, got) ==
    /\ ~IsNil(got)
    /\ \A f \in (DOMAIN pr.data \cap Columns(cfg)) \ SystemFieldNames :
          got[f] = pr.data[f]
    /\ got.id = pr.id /\ got.tenant_id = pr.tenant
    /\ got.created_at # Null /\ got.updated_at # Null
    /\ cfg.OptimisticLock => got.version = 1

\* C10: round trip - a Create followed immediately by a read of the returned
\* id in the same tenant returns a record equal to the created one on every
\* field the caller supplied, with the system fields populated.
C10_RoundTrip ==
    [][\A p \in Procs :
          (Begins(p) /\ proc'[p].op = "create" /\ proc'[p].pc = "post")
              => RoundTrip(proc'[p],
                           GetByID(cfg, store', proc'[p].tenant, proc'[p].id))]_vars

\* ------------------------------------------------------------ C11
\* the row passes the whole filter of a query: tenant, not deleted, and every
\* condition of the caller
Selected(c, tenantID, where, r) ==
    /\ r.tenant_id = tenantID
    /\ c.SoftDelete => r.deleted_at = Null
    /\ EvalConditions(where, r)

\* a query of goroutine p returns success in this step with the number of
\* rows that pass its whole filter as total
CountsFiltered(p) ==
    (Begins(p) /\ proc'[p].op = "query" /\ Succeeded(proc'[p]))
        => proc'[p].total =
             Cardinality({ r \in store[SchemaName(proc'[p].tenant)] :
                             Selected(cfg, proc'[p].tenant, proc'[p].data.where, r) })

\* C11: the total a query returns equals the number of rows that match the
\* full filter (tenant, not-deleted and every caller condition), independent
\* of limit and offset: the count and the select share the same filter.
C11_TotalMatchesFilter == [][\A p \in Procs : CountsFiltered(p)]_vars

\* the same statement for the dal-service alone
C11_TotalMatchesFilterSvc ==
    [][cfg.engine = "svc" => \A p \in Procs : CountsFiltered(p)]_vars

\* ------------------------------------------------------------ C12
\* some leaf of the condition list, at any depth, names a field that is not
\* in the entity's metadata
RECURSIVE NamesUnknown(_, _)
NamesUnknown(c, conds) ==
    \E i \in 1 .. Len(conds) :
        IF Len(conds[i].Or) > 0 THEN NamesUnknown(c, conds[i].Or)
        ELSE IF Len(conds[i].And) > 0 THEN NamesUnknown(c, conds[i].And)
        ELSE conds[i].Field \notin Columns(c)

ReferencesUnknown(c, q) ==
    \/ NamesUnknown(c, q.Where)
    \/ \E i \in 1 .. Len(q.Select) : q.Select[i] \notin Columns(c)
    \/ \E i \in 1 .. Len(q.OrderBy) : q.OrderBy[i].Field \notin Columns(c)

\* the compiler's UnknownField errors
UnknownFieldErrors == {"invalid field", "invalid order field"}

RejectsUnknown ==
    (job.pc = "built" /\ ReferencesUnknown(cfg, job.q))
        => /\ job.err # NoError
           /\ job.err[1] \in UnknownFieldErrors
           /\ job.sql = << >>
           /\ job.params = << >>

\* C12: compiling a query that references a field not in the entity's
\* metadata - in a filter leaf at any nesting depth, in a non-empty projection
\* or in an ordering clause - fails with UnknownField and produces no
\* statement and an empty argument list; the name is never silently dropped.
C12_UnknownFieldFails == RejectsUnknown

\* the same statement for the SDK Builder alone
C12_UnknownFieldFailsSdk == cfg.engine = "sdk" => RejectsUnknown

\* ------------------------------------------------------------ C13
\* the text the condition tree stands for: the children of an `or` group
\* joined with OR, those of an `and` group with AND, groups in parentheses
RECURSIVE TreeParts(_, _)
TreeParts(conds, paramIdx) ==
    IF conds = << >> THEN [parts |-> << >>, idx |-> paramIdx]
    ELSE LET c == Head(conds)
             one ==
               IF Len(c.Or) > 0
                 THEN LET g == TreeParts(c.Or, paramIdx)
                      IN [sql |-> Paren(Join(g.parts, Kw("OR"))), idx |-> g.idx]
               ELSE IF Len(c.And) > 0
                 THEN LET g == TreeParts(c.And, paramIdx)
                      IN [sql |-> Paren(Join(g.parts, Kw("AND"))), idx |-> g.idx]
               ELSE LET l == buildSingleCondition(c, paramIdx)
                    IN [sql |-> l.sql, idx |-> l.idx]
             rest == TreeParts(Tail(conds), one.idx)
         IN [parts |-> << one.sql >> \o rest.parts, idx |-> rest.idx]

TreeText(conds) == Join(TreeParts(conds, 1).parts, Kw("AND"))

\* the WHERE clause of a statement: what follows WHERE up to ORDER BY, LIMIT
\* or OFFSET
WhereOf(sql) ==
    LET from == { i \in 1 .. Len(sql) : sql[i].k = "WHERE" }
        to   == { i \in 1 .. Len(sql) : sql[i].k \in {"ORDER BY", "LIMIT", "OFFSET"} }
        last == IF to = {} THEN Len(sql)
                ELSE (CHOOSE i \in to : \A j \in to : i <= j) - 1
    IN IF from = {} THEN << >>
       ELSE SubSeq(sql, (CHOOSE i \in from : TRUE) + 1, last)

\* C13: for every condition tree the compiled predicate preserves the tree's
\* logic: children of an `or` group are joined with OR, children of an `and`
\* group with AND, and an `and` group below an `or` is parenthesised and still
\* joined with AND: or[and[a,b], and[c,d]] compiles to ((a AND b) OR (c AND d)).
C13_LogicPreserved ==
    (cfg.engine = "sdk" /\ job.pc = "built" /\ job.err = NoError)
        => WhereOf(job.sql) = TreeText(job.q.Where)

\* ------------------------------------------------------------ C20
\* the placeholders of a statement in the order they are written
RECURSIVE Placeholders(_)
Placeholders(sql) ==
    IF sql = << >> THEN << >> ELSE Head(sql).n \o Placeholders(Tail(sql))

SequentialPlaceholders ==
    (job.pc = "built" /\ job.err = NoError)
        => Placeholders(job.sql) = [i \in 1 .. Len(job.params) |-> i]

\* C20: for every compiled filter, nested and/or groups and the in, not_in,
\* between, is_null and is_not_null operators included, the placeholders are
\* numbered $1, $2, ... strictly sequentially in traversal order and their
\* number equals the length of the argument list.
C20_PlaceholdersSequential == SequentialPlaceholders

\* the same statement for the SDK Builder alone
C20_PlaceholdersSequentialSdk == cfg.engine = "sdk" => SequentialPlaceholders

\* ------------------------------------------------------------ C14
ImmutableColumns == {"id", "tenant_id", "created_at"}

\* the immutable part of every row of a table
Identities(rows) == { [f \in ImmutableColumns |-> r[f]] : r \in rows }

\* the UPDATE statement of an Update leaves id, tenant_id and created_at of
\* every row as they were
KeepsIdentity(p) ==
    WritesUpdate(p) =>
        \A s \in Schemas : Identities(store'[s]) = Identities(store[s])

\* a payload key that is not in the metadata does not reach the statement:
\* the Update of a stored row goes through on the remaining keys
DropsUnknownKeys(p) ==
    (/\ WritesUpdate(p)
     /\ ~WellFormed(proc[p])
     /\ ~IsNil(GetByID(cfg, store, proc[p].tenant, proc[p].id)))
        => /\ proc'[p].pc = "post"
           /\ proc'[p].err = NoError
           /\ DOMAIN proc'[p].out = Columns(cfg)

\* C14: Update never changes id, tenant_id or created_at of a record,
\* whatever the payload contains, and payload keys that are not in the
\* entity's metadata are dropped.
C14_UpdateFrame ==
    [][\A p \in Procs : KeepsIdentity(p) /\ DropsUnknownKeys(p)]_vars

\* the same statement for the SDK DAL alone
C14_UpdateFrameSdk ==
    [][cfg.engine = "sdk" =>
          \A p \in Procs : KeepsIdentity(p) /\ DropsUnknownKeys(p)]_vars

\* the immutable columns alone, both engines
C14_KeepsIdentity == [][\A p \in Procs : KeepsIdentity(p)]_vars

\* ------------------------------------------------------------ C15
\* the rows stored in any schema
AllRows(st) == UNION { st[s] : s \in Schemas }

\* a Create that inserts stores exactly one row, under an identifier the
\* server generated, for the calling tenant, with both timestamps set and,
\* when the node is locked optimistically, version 1
StampsSystemFields(p) ==
    (Begins(p) /\ proc'[p].op = "create" /\ proc'[p].pc = "post") =>
        LET schema == SchemaName(proc'[p].tenant)
            new    == store'[schema] \ store[schema]
        IN /\ Cardinality(new) = 1
           /\ \A r \in new :
                 /\ r.id = nextId
                 /\ r.id \notin { x.id : x \in AllRows(store) }
                 /\ r.tenant_id = proc'[p].tenant
                 /\ r.created_at # Null
                 /\ r.updated_at # Null
                 /\ cfg.OptimisticLock => r.version = 1
                 /\ proc'[p].out = r

\* C15: on Create the stored id is generated by the server and the stored
\* tenant_id is the calling tenant, regardless of what the payload supplies;
\* created_at and updated_at are set, and version is 1 when optimistic
\* locking is enabled.
C15_CreateSystemFields == [][\A p \in Procs : StampsSystemFields(p)]_vars

\* a Create in t1 whose payload named tenant t2 and id 9 stored its row under
\* t1 and the generated id
C15_Witness ==
    /\ cfg.SoftDelete
    /\ \E p \in Procs :
          /\ proc[p].op = "create" /\ Succeeded(proc[p])
          /\ proc[p].tenant = "t1"
          /\ proc[p].out.title = "x" /\ proc[p].out.deleted_at = Null
          /\ proc[p].out.tenant_id = "t1"
          /\ proc[p].out.id = proc[p].id
          /\ proc[p].out \in store[SchemaName("t1")]

\* ------------------------------------------------------------ C16
PreDeleteFailed == "pre-delete hook failed"

\* a Delete of a live row whose registered pre-delete check fails ends in
\* that step with the hook's error; no statement, no post hook, no event
CheckAborts(p) ==
    (/\ cfg.engine = "sdk"
     /\ Begins(p) /\ proc'[p].op = "delete"
     /\ proc'[p].data.failing # {}
     /\ ~IsNil(GetByID(cfg, store, proc'[p].tenant, proc'[p].id)))
        => /\ proc'[p].pc = "done"
           /\ proc'[p].err # NoError /\ proc'[p].err[1] = PreDeleteFailed
           /\ store' = store /\ gone' = gone
           /\ proc'[p].log = << >>
           /\ proc'[p].pubs = << >>

\* C16: a failing registered pre-delete check aborts the Delete: the row is
\* neither removed nor marked deleted, no post-delete action runs and no
\* deleted event is published.
C16_CheckAbortsDelete == [][\A p \in Procs : CheckAborts(p)]_vars

\* a Delete ended on its failing check and the row it addressed is still
\* stored and live
C16_Witness ==
    /\ cfg.engine = "sdk"
    /\ \E p \in Procs :
          /\ proc[p].op = "delete" /\ proc[p].pc = "done"
          /\ proc[p].data.failing # {}
          /\ proc[p].err # NoError /\ proc[p].err[1] = PreDeleteFailed
          /\ ~IsNil(proc[p].old)
          /\ GetByID(cfg, store, proc[p].tenant, proc[p].id) = proc[p].old

\* ------------------------------------------------------------ C17
\* names a hook slot declares for which nothing is registered
Unregistered ==
    ({ Hooks.PostCreate.Actions[i] : i \in 1 .. Len(Hooks.PostCreate.Actions) }
       \cup { Hooks.PostUpdate.Actions[i] : i \in 1 .. Len(Hooks.PostUpdate.Actions) }
       \cup { Hooks.PostDelete.Actions[i] : i \in 1 .. Len(Hooks.PostDelete.Actions) }
       \cup { Hooks.PostUpdate.Triggers[i].Action :
                i \in 1 .. Len(Hooks.PostUpdate.Triggers) }
       \cup { Hooks.PreDelete.Checks[i] : i \in 1 .. Len(Hooks.PreDelete.Checks) })
    \ (actionHandlers \cup triggerHandlers \cup checkHandlers)

HookStages ==
    {"post-create hook failed", "post-update hook failed",
     "pre-delete hook failed", "post-delete hook failed"}

\* every hook error names a registered callback of the kind that failed
FailsOnRegistered ==
    \A p \in Procs :
        (proc[p].err # NoError /\ proc[p].err[1] \in HookStages) =>
            /\ Len(proc[p].err) = 3
            /\ proc[p].err[2] = "action failed"  => proc[p].err[3] \in actionHandlers
            /\ proc[p].err[2] = "trigger failed" => proc[p].err[3] \in triggerHandlers
            /\ proc[p].err[2] = "check failed"   => proc[p].err[3] \in checkHandlers
            /\ proc[p].err[2] \in {"action failed", "trigger failed", "check failed"}

\* a Delete of a live row none of whose registered checks fails goes on to
\* its statement, the declared check without a callback notwithstanding
SkipsUnregistered(p) ==
    (/\ cfg.engine = "sdk"
     /\ Begins(p) /\ proc'[p].op = "delete"
     /\ proc'[p].data.failing = {}
     /\ ~IsNil(GetByID(cfg, store, proc'[p].tenant, proc'[p].id)))
        => proc'[p].pc = "write" /\ proc'[p].err = NoError

\* C17: a declared action, trigger or check name for which no callback is
\* registered is a no-op: the operation proceeds as if the name were not
\* declared, and the other declared names still run.
C17_UnregisteredIsNoOp ==
    []FailsOnRegistered /\ [][\A p \in Procs : SkipsUnregistered(p)]_vars

\* a Create whose post-create slot declares an action without a callback
\* ahead of notify_customer ended on the error of notify_customer
C17_Witness ==
    /\ Hooks.PostCreate.Actions[1] \in Unregistered
    /\ \E p \in Procs :
          /\ proc[p].op = "create" /\ proc[p].pc = "done"
          /\ proc[p].err = << "post-create hook failed", "action failed",
                              Hooks.PostCreate.Actions[2] >>

\* ---------------------------------------------------------------- C18
Entities(dsl) == { dsl.Nodes[i].Name : i \in DOMAIN dsl.Nodes }

EntityOf(dsl, n) == dsl.Nodes[CHOOSE i \in DOMAIN dsl.Nodes : dsl.Nodes[i].Name = n]

Fields(node) == { node.Properties[i].Name : i \in DOMAIN node.Properties }

FieldType(node, f) ==
    node.Properties[CHOOSE i \in DOMAIN node.Properties :
                        node.Properties[i].Name = f].Type

IndexNames(node) == { node.Indexes[i].Name : i \in DOMAIN node.Indexes }

TableOperations ==
    {"CREATE_TABLE", "DROP_TABLE", "ADD_COLUMN", "DROP_COLUMN", "ALTER_COLUMN"}

OperationKey(m) == << m.Type, m.Table, m.Column >>

\* the table and column operations the name-wise difference calls for
ExpectedOperations(old, new) ==
    LET both == Entities(old) \cap Entities(new)
    IN { << "CREATE_TABLE", EntityOf(new, n).Table, "" >> :
            n \in Entities(new) \ Entities(old) }
       \cup { << "DROP_TABLE", EntityOf(old, n).Table, "" >> :
            n \in Entities(old) \ Entities(new) }
       \cup UNION { { << "ADD_COLUMN", EntityOf(new, n).Table, f >> :
                        f \in Fields(EntityOf(new, n)) \ Fields(EntityOf(old, n)) }
                    : n \in both }
       \cup UNION { { << "DROP_COLUMN", EntityOf(new, n).Table, f >> :
                        f \in Fields(EntityOf(old, n)) \ Fields(EntityOf(new, n)) }
                    : n \in both }
       \cup UNION { { << "ALTER_COLUMN", EntityOf(new, n).Table, f >> :
                        f \in { g \in Fields(EntityOf(old, n))
                                        \cap Fields(EntityOf(new, n)) :
                                  FieldType(EntityOf(old, n), g)
                                      # FieldType(EntityOf(new, n), g) } }
                    : n \in both }

\* every expected operation occurs once in the list, the list holds no other
\* table or column operation, and whatever else it holds is an index
\* operation on an entity of both definitions whose index names differ
ExactDifference(old, new, ms) ==
    /\ \A e \in ExpectedOperations(old, new) :
          Cardinality({ i \in DOMAIN ms : OperationKey(ms[i]) = e }) = 1
    /\ \A i \in DOMAIN ms :
          IF ms[i].Type \in TableOperations
          THEN OperationKey(ms[i]) \in ExpectedOperations(old, new)
          ELSE /\ ms[i].Type \in {"CREATE_INDEX", "DROP_INDEX"}
               /\ \E n \in Entities(old) \cap Entities(new) :
                     /\ EntityOf(new, n).Table = ms[i].Table
                     /\ IndexNames(EntityOf(old, n)) # IndexNames(EntityOf(new, n))

\* Migrate has compared the registered definition with the new one
Compares == mig.pc = "request" /\ mig.known /\ mig'.pc # "request"

\* C18: the diff of an old and a new definition compares by name and yields
\* exactly one create-table per entity only in new, one drop-table per entity
\* only in old, and for each entity in both one add-column per field only in
\* new, one drop-column per field only in old, one alter-column per field
\* whose type changed, and nothing for an unchanged field.
C18_DiffByName ==
    [][Compares => ExactDifference(mig.registry, mig.new, mig'.migrations)]_vars

\* fields {a, b} against {b, c} of one entity gave add-column c and
\* drop-column a and nothing else
C18_Witness ==
    /\ mig.pc = "list" /\ ~mig.creating
    /\ Entities(mig.registry) = {"Ticket"} /\ Entities(mig.new) = {"Ticket"}
    /\ Fields(EntityOf(mig.registry, "Ticket")) = {"a", "b"}
    /\ Fields(EntityOf(mig.new, "Ticket")) = {"b", "c"}
    /\ Len(mig.migrations) = 2
    /\ { OperationKey(mig.migrations[i]) : i \in DOMAIN mig.migrations }
          = { << "ADD_COLUMN", "tickets", "c" >>,
              << "DROP_COLUMN", "tickets", "a" >> }

\* ---------------------------------------------------------------- C19
\* Migrate has returned after taking a non-empty list to the tenants
AppliedToTenants ==
    /\ mig.pc = "done" /\ ~mig.creating
    /\ mig.migrations # << >>
    /\ mig.err # << "list tenants failed" >>

IsPrefix(s, t) == Len(s) <= Len(t) /\ \A i \in DOMAIN s : s[i] = t[i]

\* tenant t has the whole list, or stopped inside it on a failure that the
\* reply attributes to t
MigratedOrReported(t) ==
    \/ mig.ran[t] = mig.migrations
    \/ /\ IsPrefix(mig.ran[t], mig.migrations)
       /\ mig.err = << "migration failed for tenant", t >>

\* C19: when a migration list is applied to several tenants, a failing
\* operation aborts the remaining operations for that tenant only: the list
\* is still applied to every other tenant, and the failure is reported per
\* tenant, not globally.
C19_FailureIsPerTenant ==
    AppliedToTenants => \A t \in Tenants : MigratedOrReported(t)

\* ---------------------------------------------------------------- C21
\* the existing row overlaid with the caller's changes
MergedRecord == Overlay(hk.old, hk.data)

\* the update ended on the message of one of its declared validations
ValidationRejected ==
    /\ hk.pc = "done" /\ Len(hk.err) = 2
    /\ hk.err[1] = "pre-update hook failed"
    /\ \E i \in DOMAIN hk.pre.Validations : hk.err[2] = hk.pre.Validations[i].Message

\* C21: pre-update validations are evaluated against the proposed merged
\* record (the existing row overlaid with the caller's changes), so a partial
\* update that omits a field whose stored value already satisfies its
\* validation rule is not rejected.
C21_ValidatesMerged ==
    (/\ hk.pc \in {"updated", "done"}
     /\ runValidations(MergedRecord, hk.pre.Validations) = NoError)
        => ~ValidationRejected

\* ---------------------------------------------------------------- C22
\* the post-update stage of the update has run
PostUpdateRan == hk.pc = "done" /\ ~IsNil(hk.out)

\* the calls due to the declared triggers, in declaration order: those with a
\* registered callback whose field differs between the old and the updated row
DueTriggerCalls ==
    LET due == SelectSeq(hk.post.Triggers,
                  LAMBDA t : /\ t.Action \in triggerHandlers
                             /\ Val(hk.old, t.OnFieldChange)
                                    # Val(hk.out, t.OnFieldChange))
    IN [i \in DOMAIN due |-> << "trigger", due[i].Action, due[i].OnFieldChange >>]

TriggerCallsMade == SelectSeq(hk.calls, LAMBDA c : c[1] = "trigger")

TriggerFailed == Len(hk.err) = 3 /\ hk.err[2] = "trigger failed"

\* C22: in the post-update stage, for each declared field-change trigger the
\* registered callback is invoked if and only if the named field's value
\* differs between the old row and the updated row, and all triggers are
\* processed before any post-update action runs (a callback that returns an
\* error ends the stage at that callback).
C22_TriggersThenActions ==
    PostUpdateRan =>
        /\ IsPrefix(TriggerCallsMade, DueTriggerCalls)
        /\ ~TriggerFailed => TriggerCallsMade = DueTriggerCalls
        /\ TriggerFailed => /\ hk.calls # << >>
                            /\ hk.calls[Len(hk.calls)][2] = hk.err[3]
                            /\ hk.calls = TriggerCallsMade
        /\ \A i, j \in DOMAIN hk.calls :
              (hk.calls[i][1] = "action" /\ hk.calls[j][1] = "trigger") => j < i

\* an update that changed status and left title alone invoked the status
\* trigger, skipped the title trigger, and ran the action afterwards
C22_Witness ==
    /\ PostUpdateRan
    /\ Len(hk.post.Triggers) = 2
    /\ hk.post.Triggers[1].OnFieldChange = "title"
    /\ hk.post.Triggers[1].Action \in triggerHandlers
    /\ hk.old.title = hk.out.title
    /\ hk.calls = << << "trigger", "notify_status_change", "status" >>,
                     << "action", "calculate_sla", "" >> >>

\* ---------------------------------------------------------------- C23
\* the requested relations whose declared target lives in another service
CrossServiceRequested ==
    { NodeRelations[i].Name :
        i \in { j \in DOMAIN NodeRelations :
                  /\ NodeRelations[j].TargetService # ServiceName
                  /\ \E k \in DOMAIN rel.relations :
                        rel.relations[k] = NodeRelations[j].Name } }

\* C23: for each relation requested in a query whose target entity lives in a
\* different service, every row of the result carries a pending marker for
\* that relation; the relation is never silently omitted.
C23_PendingMarker ==
    (rel.pc = "done" /\ rel.err = NoError) =>
        \A n \in CrossServiceRequested :
            \A i \in DOMAIN rel.out :
                /\ PendingKey(n) \in DOMAIN rel.out[i]
                /\ rel.out[i][PendingKey(n)] = TRUE

\* the same for the SDK alone
C23_PendingMarkerSdk == cfg.engine = "sdk" => C23_PendingMarker

\* ---------------------------------------------------------------- C24
\* some leaf of the condition tree is an `in` or `not_in` over an empty list,
\* or a `between` whose value is not a list of exactly two elements
RECURSIVE HasMalformedList(_)
HasMalformedList(conds) ==
    \E i \in DOMAIN conds :
        IF Len(conds[i].Or) > 0 THEN HasMalformedList(conds[i].Or)
        ELSE IF Len(conds[i].And) > 0 THEN HasMalformedList(conds[i].And)
        ELSE \/ /\ conds[i].Operator \in {"in", "not_in"}
                /\ conds[i].Arr /\ conds[i].Values = << >>
             \/ /\ conds[i].Operator = "between"
                /\ ~(conds[i].Arr /\ Len(conds[i].Values) = 2)

\* C24: compiling an `in` or `not_in` condition with an empty list, or a
\* `between` condition whose value is not exactly two elements, is rejected
\* with an error instead of producing a statement.
C24_MalformedListRejected ==
    (/\ cfg.engine = "sdk" /\ job.pc = "built"
     /\ HasMalformedList(job.q.Where))
        => job.err # NoError /\ job.sql = << >>

\* ---------------------------------------------------------------- C25
\* the nodes known to the provisioner
ProvisionedNodes ==
    UNION { { prov.services[i].Nodes[j] : j \in DOMAIN prov.services[i].Nodes } :
            i \in DOMAIN prov.services }

ColumnsOf(t) == { t.columns[i] : i \in DOMAIN t.columns }

\* the table carries the conditional system columns of its node's dal block
ConditionalColumns(t, node) ==
    /\ node.DAL.SoftDelete => {"deleted_at", "deleted_by"} \subseteq ColumnsOf(t)
    /\ ~node.DAL.SoftDelete => {"deleted_at", "deleted_by"} \cap ColumnsOf(t) = {}
    /\ node.DAL.OptimisticLock <=> "version" \in ColumnsOf(t)

\* C25: provisioning a tenant creates, for every entity, the soft-delete
\* columns (deleted_at, deleted_by) if and only if soft delete is enabled for
\* the entity, and the version column if and only if optimistic locking is
\* enabled.
C25_ConditionalColumns ==
    \A t \in prov.tables :
        \A node \in ProvisionedNodes :
            node.Table = t.table => ConditionalColumns(t, node)

\* the same for the tables the dal-service makes
C25_ConditionalColumnsSvc == cfg.engine = "svc" => C25_ConditionalColumns

\* ---------------------------------------------------------------- C30
\* every table of every registered service exists in the tenant's schema
AllTablesCreated ==
    \A node \in ProvisionedNodes :
        \E t \in prov.tables :
            t.schema = SchemaName(prov.tenant) /\ t.table = node.Table

\* C30: when the tenant-create handler replies success for tenant T, the
\* tenant schema exists and the tables of every registered service have been
\* created in it; a failure while creating any service's tables is never
\* answered with a success reply.
C30_SuccessMeansProvisioned ==
    (cfg.engine = "svc" /\ prov.reply = "success") =>
        /\ SchemaName(prov.tenant) \in prov.schemas
        /\ AllTablesCreated
        /\ prov.log = << >>

\* ---------------------------------------------------------------- C26
\* the row an in-flight update addresses is stored and carries deleted_at
AddressesSoftDeleted(pr) ==
    /\ cfg.SoftDelete
    /\ pr.id \in gone
    /\ ~IsNil(StoredRow(store, pr))
    /\ StoredRow(store, pr).deleted_at # Null

\* C26: once an entity has been soft-deleted, no Update changes its row or
\* publishes an `updated` event for it: the write of an Update that finds the
\* row soft-deleted (also one that read the row before the Delete) leaves the
\* store as it is and ends the Update with an error, before any publication.
C26_NoUpdateAfterSoftDelete ==
    [][\A p \in Procs :
          (WritesUpdate(p) /\ AddressesSoftDeleted(proc[p])) =>
              /\ store' = store
              /\ proc'[p].pc = "done"
              /\ proc'[p].err # NoError
              /\ proc'[p].pubs = << >>]_vars

\* the same for the engine that reads the row before it writes
C26_NoUpdateAfterSoftDeleteSdk ==
    [][cfg.engine = "sdk" => \A p \in Procs :
          (WritesUpdate(p) /\ AddressesSoftDeleted(proc[p])) =>
              /\ store' = store
              /\ proc'[p].pc = "done"
              /\ proc'[p].err # NoError
              /\ proc'[p].pubs = << >>]_vars

\* ---------------------------------------------------------------- C27
\* a delete statement has hit the id and no live row of it is stored
AlreadyDeleted(id) ==
    /\ id \in gone
    /\ \A sch \in Schemas : \A r \in store[sch] :
           r.id = id => (cfg.SoftDelete /\ r.deleted_at # Null)

\* step in which the Delete of p gets past the point of its delete statement:
\* it fails before the statement, or the statement is executed
PassesDelete(p) ==
    /\ Acts(p)
    /\ proc'[p].op = "delete"
    /\ \/ Begins(p) /\ proc'[p].pc # "write"
       \/ proc[p].pc = "write" /\ proc'[p].pc # "write"

SecondDeleteRejected(p) ==
    (PassesDelete(p) /\ AlreadyDeleted(proc'[p].id)) =>
        /\ store' = store
        /\ proc'[p].pc = "done"
        /\ proc'[p].err # NoError
        /\ proc'[p].pubs = << >>

\* C27: for any entity a `deleted` event is published at most once: a Delete
\* whose statement runs on an id that is already deleted (soft or hard) fails,
\* leaves the store unchanged (deleted_at keeps its first value) and
\* publishes no event.
C27_DeletedOnce ==
    [][\A p \in Procs : SecondDeleteRejected(p)]_vars

\* the same, one engine at a time
C27_DeletedOnceSdk ==
    [][cfg.engine = "sdk" => \A p \in Procs : SecondDeleteRejected(p)]_vars

C27_DeletedOnceSvc ==
    [][cfg.engine = "svc" => \A p \in Procs : SecondDeleteRejected(p)]_vars

\* ---------------------------------------------------------------- C28
\* Migrate has returned for a service the registry already knew
ReturnedForRegistered == mig.pc = "done" /\ ~mig.creating

\* the registry's definition of a registered service changes only in the
\* step that ends its request with success, and then to the new definition
RegistryKeptUntilSuccess ==
    (~mig'.creating /\ mig'.registry # mig.registry) =>
        /\ mig'.pc = "done" /\ mig'.err = NoError
        /\ mig'.registry = mig.new

\* C28: whenever Migrate(service, newDSL) returns success for an
\* already-registered service, the registry's definition of that service is
\* newDSL, also when old and new differ only in parts that yield no schema
\* migration; whenever it returns an error the registry still holds the
\* previous definition.
C28_RegistryFollowsMigrate ==
    /\ []((ReturnedForRegistered /\ mig.err = NoError) => mig.registry = mig.new)
    /\ [][RegistryKeptUntilSuccess]_vars

\* the half about errors alone
C28_ErrorKeepsRegistry == [][RegistryKeptUntilSuccess]_vars

\* a successful migration that had operations to run registered the new
\* definition
C28_AppliedIsRegistered ==
    (ReturnedForRegistered /\ mig.err = NoError /\ mig.migrations # << >>)
        => mig.registry = mig.new

\* ---------------------------------------------------------------- C29
\* the entities of a definition stored in table t
EntitiesOfTable(dsl, t) == { n \in Entities(dsl) : EntityOf(dsl, n).Table = t }

\* indexes of the new definition of table t that the old one does not have
NewIndexes(t) ==
    UNION { IndexNames(EntityOf(mig.new, n)) \
              (IF n \in Entities(mig.registry)
               THEN IndexNames(EntityOf(mig.registry, n)) ELSE {}) :
            n \in EntitiesOfTable(mig.new, t) }

\* the diff of a registered service is made and the registry still holds the
\* definition it was made against
Diffed == ~mig.creating /\ mig.pc \in {"list", "apply", "register"}

\* the definition a migration points to is the one of the object it names
CarriesOwnFragment(m) ==
    CASE m.Type \in {"ADD_COLUMN", "ALTER_COLUMN"} -> m.Ref = m.Column
      [] m.Type = "CREATE_TABLE" -> m.Ref \in EntitiesOfTable(mig.new, m.Table)
      [] m.Type = "CREATE_INDEX" -> m.Ref \in NewIndexes(m.Table)
      [] OTHER -> TRUE

\* C29: every migration produced by the diff carries the metadata fragment
\* of the object it names, also when the diff holds several migrations: an
\* add-column or alter-column migration for column c carries the property
\* definition named c, a create-table migration for table t the node whose
\* table is t, and a create-index migration its own index definition.
C29_CarriesOwnFragment ==
    Diffed => \A i \in DOMAIN mig.migrations : CarriesOwnFragment(mig.migrations[i])

\* the same where every iteration of a range loop has its own variable
C29_CarriesOwnFragmentPerIteration ==
    ~mig.shared => C29_CarriesOwnFragment

====
